---- MODULE Spec2Model ----
(***************************************************************************)
(* Expenses tracker: the two admin endpoints (delete-user, list-users) in  *)
(* their two deployments (Vercel api/ handlers and Supabase Deno           *)
(* functions), the Admin screen that calls them, and the Dashboard's       *)
(* derived statistics.                                                     *)
(***************************************************************************)
EXTENDS Integers, Sequences, FiniteSets, TLC

VARIABLES
    backend,     \* deployment behind FUNCTIONS_BASE_URL: "vercel" (api/) or "deno" (supabase/functions)
    authUsers,   \* the identity provider's user records (supabase.auth.admin)
    profiles,    \* rows of table expenses_profiles, in storage order
    ops,         \* HTTP exchanges in flight, each with the coroutine that issued it
    session,     \* the browser's supabase auth session
    isLoggedIn,  \* Admin state
    users,       \* Admin state: the rows shown
    loading,     \* Admin state
    alert,       \* the last Swal.fire shown by the Admin screen
    mounted,     \* whether the Admin screen's mount effect has run
    expenses,    \* Dashboard state
    derived,     \* Dashboard: the memoised statistics of the last render
    csv,         \* Dashboard: the content of the last downloaded expenses.csv
    expenseRows, \* the rows of the table expenses__expenses
    dash,        \* Dashboard: email, filter, startDate, endDate, searchTerm, loading
    now,         \* the local time of the browser's clock
    storeUser,   \* useAuthStore: the user held in client memory
    route,       \* the page the router shows
    todoRows,    \* the rows of the table expenses_todos
    todo,        \* TodoList: userEmail, todos, loading
    nextId       \* the id the database gives the next inserted row

vars == <<backend, authUsers, profiles, ops, session, isLoggedIn, users,
          loading, alert, mounted, expenses, derived, csv, expenseRows, dash, now,
          storeUser, route, todoRows, todo, nextId>>

serverVars == <<authUsers, profiles>>
adminVars  == <<session, isLoggedIn, users, loading, alert>>
screenVars == <<adminVars, mounted>>
appVars    == <<storeUser, route, todoRows, todo, nextId>>

dashVars   == <<expenses, derived, csv, expenseRows, dash, now, appVars>>

fetchVars  == <<expenseRows, dash, now, appVars>>

-----------------------------------------------------------------------------
(* Bounds of the model *)

\* coroutines of the Admin screen (fetchUsers, handleDelete) in flight at once
MaxOps == 2

\* requests of outside callers in flight at once
MaxCalls == 1

\* rows in the Dashboard's expense list
MaxExpenses == 3

\* significand width of the model's binary floating point (IEEE double: 53)
MantissaBits == 11

\* fetches of the Dashboard in flight at once
MaxFetches == 1

\* requests of the expense form in flight at once
MaxSaves == 2

\* requests in flight while the user edits a form's fields or picks a row
MaxBusy == 0

\* requests of the TodoList for single tasks in flight at once
MaxTodoOps == 1

\* rows inserted before the user stops adding
MaxInserts == 1

\* fetches of the Dashboard in flight at once while the filter is changed
\* again before the first answer
MaxRacing == 2

-----------------------------------------------------------------------------
(* Values *)

\* SQL NULL / JS null-undefined for a text column: no stored email is empty
NULL == <<>>

\* Emails are strings over a two-letter alphabet with both cases.
Emails == {<<"A">>, <<"a">>, <<"b">>, <<"c">>}

LowerChar(c) ==
    CASE c = "A" -> "a" [] c = "B" -> "b" [] c = "C" -> "c" [] c = "F" -> "f"
      [] c = "M" -> "m" [] c = "O" -> "o" [] c = "P" -> "p" [] c = "T" -> "t" [] OTHER -> c

toLowerCase(s) == [i \in 1..Len(s) |-> LowerChar(s[i])]

IsString(v) == v # NULL

\* a timestamp column holding NULL
NullTime == -1

\* a numeric column or input: NULL / "", or a number
NoValue == [set |-> FALSE, v |-> 0]
Value(n) == [set |-> TRUE, v |-> n]

Ids == {"u1", "u2", "u3"}

\* body.id when the body carries no id property
NoId == ""

IdLess(a, b) == <<a, b>> \in {<<"u1", "u2">>, <<"u1", "u3">>, <<"u2", "u3">>}

Remove(s, i) == [j \in 1..(Len(s) - 1) |-> IF j < i THEN s[j] ELSE s[j + 1]]

RECURSIVE SelectRows(_, _)
SelectRows(rows, keep) ==
    IF rows = <<>> THEN <<>>
    ELSE LET rest == SelectRows(Tail(rows), keep)
         IN  IF Head(rows) \in keep THEN <<Head(rows)>> \o rest ELSE rest

Range(s) == {s[i] : i \in 1..Len(s)}

-----------------------------------------------------------------------------
(* The backend-as-a-service calls the handlers await.  Each may fail; the  *)
(* handlers only read the error's message.                                 *)

AuthErrors  == {"auth: service unavailable"}
TableErrors == {"db: permission denied"}

\* req.json() on a body that is no JSON text, and body.id on JSON null
ParseError == "Unexpected end of JSON input"

\* supabase.auth.admin.listUsers({ page: 1, perPage: 200 })
perPage == 200

ListUsersPage(all) ==
    IF Cardinality(all) <= perPage THEN all
    ELSE CHOOSE page \in SUBSET all : Cardinality(page) = perPage

-----------------------------------------------------------------------------
(* HTTP exchanges *)

Methods == {"OPTIONS", "GET", "POST"}

\* json: "absent" (no body / not JSON), "object" (a JSON object, id = NoId
\* when it has no id property)
Bodies == {[json |-> "absent", id |-> NoId], [json |-> "object", id |-> NoId]}
          \cup {[json |-> "object", id |-> i] : i \in Ids}

\* the session the sender of a request holds; no handler reads it
Callers == {"none", "user", "unconfirmedAdmin", "admin"}

NoResponse == [status |-> 0, hasBody |-> FALSE, success |-> FALSE, error |-> "",
               hasUsers |-> FALSE, users |-> <<>>]

Json(st, ok, err) ==
    [status |-> st, hasBody |-> TRUE, success |-> ok, error |-> err,
     hasUsers |-> FALSE, users |-> <<>>]

JsonUsers(st, rows) ==
    [status |-> st, hasBody |-> TRUE, success |-> TRUE, error |-> "",
     hasUsers |-> TRUE, users |-> rows]

Preflight == [NoResponse EXCEPT !.status = 204]

\* new Response(body, { headers }) without a status
DefaultStatus == 200

NewOp(kind, path, method, body, caller, pc) ==
    [kind |-> kind, path |-> path, method |-> method, body |-> body,
     caller |-> caller, pc |-> pc, authOk |-> FALSE, authFailed |-> FALSE,
     tableTried |-> FALSE, tableOk |-> FALSE, thrown |-> "", snap |-> {},
     res |-> NoResponse]

Respond(op, r) == [op EXCEPT !.pc = "responded", !.res = r]

\* the status of the catch block's response
CatchStatus == IF backend = "vercel" THEN 500 ELSE DefaultStatus

\* catch (err): answer err.message
Caught(op, msg) == [Respond(op, Json(CatchStatus, FALSE, msg)) EXCEPT !.thrown = msg]

-----------------------------------------------------------------------------
(* delete-user *)

\* DeleteUserEntry without the check of body.id
DeleteUserEntryNoIdCheck(op) ==
    IF op.method = "OPTIONS" THEN Respond(op, Preflight)
    ELSE IF op.method # "POST" THEN Respond(op, Json(405, FALSE, "Method not allowed"))
    ELSE IF backend = "deno" /\ op.body.json = "absent" THEN Caught(op, ParseError)
    ELSE [op EXCEPT !.pc = "authCall"]

\* the handler from its entry to its first await on the backend
DeleteUserEntry(op) ==
    IF op.method = "OPTIONS" THEN Respond(op, Preflight)
    ELSE IF op.method # "POST" THEN Respond(op, Json(405, FALSE, "Method not allowed"))
    ELSE IF backend = "deno" /\ op.body.json = "absent" THEN Caught(op, ParseError)
    ELSE IF op.body.id = NoId THEN Respond(op, Json(400, FALSE, "User ID is required"))
    ELSE [op EXCEPT !.pc = "authCall"]

DeleteUserHandler(i) ==
    /\ ops[i].path = "delete-user"
    /\ ops[i].pc = "sent"
    /\ ops' = [ops EXCEPT ![i] = DeleteUserEntry(ops[i])]
    /\ UNCHANGED <<backend, serverVars, screenVars, dashVars>>

\* AfterAuthDelete without "if (authError) throw authError"
AfterAuthDeleteNoThrow(op, err) ==
    [op EXCEPT !.pc = "tableCall", !.authOk = (err = ""), !.authFailed = (err # "")]

\* after supabase.auth.admin.deleteUser(userId) returned authError = err
\* ("" for none): throw, or go on to the profile deletion
AfterAuthDelete(op, err) ==
    IF err # "" THEN [Caught(op, err) EXCEPT !.authFailed = TRUE]
    ELSE [op EXCEPT !.pc = "tableCall", !.authOk = TRUE]

DeleteUserAuthStep(i) ==
    /\ ops[i].path = "delete-user"
    /\ ops[i].pc = "authCall"
    /\ \/ /\ authUsers' = {a \in authUsers : a.id # ops[i].body.id}
          /\ ops' = [ops EXCEPT ![i] = AfterAuthDelete(ops[i], "")]
       \/ /\ \E err \in AuthErrors :
                ops' = [ops EXCEPT ![i] = AfterAuthDelete(ops[i], err)]
          /\ UNCHANGED authUsers
    /\ UNCHANGED <<backend, profiles, screenVars, dashVars>>

\* AfterProfileDelete without "if (tableError) throw tableError"
AfterProfileDeleteNoThrow(op, err) ==
    [Respond(op, Json(200, TRUE, "")) EXCEPT !.tableTried = TRUE, !.tableOk = (err = "")]

\* after .from('expenses_profiles').delete().eq('id', userId) returned
AfterProfileDelete(op, err) ==
    IF err # "" THEN [Caught(op, err) EXCEPT !.tableTried = TRUE]
    ELSE [Respond(op, Json(200, TRUE, "")) EXCEPT !.tableTried = TRUE, !.tableOk = TRUE]

DeleteUserTableStep(i) ==
    /\ ops[i].path = "delete-user"
    /\ ops[i].pc = "tableCall"
    /\ \/ /\ profiles' = SelectRows(profiles, {p \in Range(profiles) : p.id # ops[i].body.id})
          /\ ops' = [ops EXCEPT ![i] = AfterProfileDelete(ops[i], "")]
       \/ /\ \E err \in TableErrors :
                ops' = [ops EXCEPT ![i] = AfterProfileDelete(ops[i], err)]
          /\ UNCHANGED profiles
    /\ UNCHANGED <<backend, authUsers, screenVars, dashVars>>

-----------------------------------------------------------------------------
(* list-users *)

ListUsersEntry(op) ==
    IF op.method = "OPTIONS" THEN Respond(op, Preflight)
    ELSE IF backend = "vercel" /\ op.method # "GET"
         THEN Respond(op, Json(405, FALSE, "Method not allowed"))
    ELSE [op EXCEPT !.pc = "authCall"]

ListUsersHandler(i) ==
    /\ ops[i].path = "list-users"
    /\ ops[i].pc = "sent"
    /\ ops' = [ops EXCEPT ![i] = ListUsersEntry(ops[i])]
    /\ UNCHANGED <<backend, serverVars, screenVars, dashVars>>

\* Matches without the confirmed conjunct
MatchesUnconfirmed(p, authList) ==
    \E a \in authList :
        \/ a.id = p.id
        \/ /\ IsString(a.email)
           /\ IsString(p.email)
           /\ toLowerCase(a.email) = toLowerCase(p.email)

\* authUsers.some(...) of the filter, for profile p
Matches(p, authList) ==
    \E a \in authList :
        LET sameId    == a.id = p.id
            sameEmail == /\ IsString(a.email)
                         /\ IsString(p.email)
                         /\ toLowerCase(a.email) = toLowerCase(p.email)
            confirmed == a.email_confirmed_at # NullTime \/ a.confirmed_at # NullTime
        IN  confirmed /\ (sameId \/ sameEmail)

confirmedUsers(rows, authList) ==
    SelectRows(rows, {p \in Range(rows) : Matches(p, authList)})

\* AfterListAuth without "if (authError) throw authError": the profiles are
\* matched against whatever the failed call left
AfterListAuthNoThrow(op, err, data) ==
    [op EXCEPT !.pc = "tableCall", !.authOk = (err = ""), !.authFailed = (err # ""),
               !.thrown = err, !.snap = data]

\* after supabase.auth.admin.listUsers returned
AfterListAuth(op, err, data) ==
    IF err # "" THEN [Caught(op, err) EXCEPT !.authFailed = TRUE]
    ELSE [op EXCEPT !.pc = "tableCall", !.authOk = TRUE, !.snap = data]

ListUsersAuthStep(i) ==
    /\ ops[i].path = "list-users"
    /\ ops[i].pc = "authCall"
    /\ \/ ops' = [ops EXCEPT ![i] = AfterListAuth(ops[i], "", ListUsersPage(authUsers))]
       \/ \E err \in AuthErrors :
             ops' = [ops EXCEPT ![i] = AfterListAuth(ops[i], err, {})]
    /\ UNCHANGED <<backend, serverVars, screenVars, dashVars>>

\* after .from('expenses_profiles').select('*') returned; authUsers is
\* not read again once the answer is made
AfterListTable(op, err, rows) ==
    IF err # "" THEN [Caught(op, err) EXCEPT !.tableTried = TRUE, !.snap = {}]
    ELSE [Respond(op, JsonUsers(200, confirmedUsers(rows, op.snap)))
             EXCEPT !.tableTried = TRUE, !.tableOk = TRUE, !.snap = {}]

ListUsersTableStep(i) ==
    /\ ops[i].path = "list-users"
    /\ ops[i].pc = "tableCall"
    /\ \/ ops' = [ops EXCEPT ![i] = AfterListTable(ops[i], "", profiles)]
       \/ \E err \in TableErrors :
             ops' = [ops EXCEPT ![i] = AfterListTable(ops[i], err, <<>>)]
    /\ UNCHANGED <<backend, serverVars, screenVars, dashVars>>

-----------------------------------------------------------------------------
(* Callers outside the Admin screen: the endpoints answer any origin.      *)

OutsideRequest ==
    /\ Len(ops) < MaxCalls
    /\ \/ \E m \in Methods, b \in Bodies, c \in Callers :
             ops' = Append(ops, NewOp("outside", "delete-user", m, b, c, "sent"))
       \/ \E m \in Methods, c \in Callers :
             ops' = Append(ops, NewOp("outside", "list-users", m,
                                      [json |-> "absent", id |-> NoId], c, "sent"))
    /\ UNCHANGED <<backend, serverVars, screenVars, dashVars>>

OutsideReceive(i) ==
    /\ ops[i].kind = "outside"
    /\ ops[i].pc = "responded"
    /\ ops' = Remove(ops, i)
    /\ UNCHANGED <<backend, serverVars, screenVars, dashVars>>

-----------------------------------------------------------------------------
(* The Admin screen *)

\* import.meta.env.VITE_ADMIN_EMAIL
AdminEmail == <<"A">>

ADMIN_EMAILS == {AdminEmail}

NoSession == [active |-> FALSE, email |-> NULL, email_confirmed_at |-> NullTime]

SessionOf(a) == [active |-> TRUE, email |-> a.email, email_confirmed_at |-> a.email_confirmed_at]

NoAlert == [by |-> "", title |-> "", text |-> ""]

\* what the sender's session amounts to when a request leaves the browser
CallerOf(s) ==
    IF ~s.active THEN "none"
    ELSE IF s.email \notin ADMIN_EMAILS THEN "user"
    ELSE IF s.email_confirmed_at = NullTime THEN "unconfirmedAdmin"
    ELSE "admin"

\* created_at ? new Date(created_at).getTime() : 0
SortKey(u) == IF u.created_at # NullTime THEN u.created_at ELSE 0

\* the comparator with its operands swapped: oldest first
compareAscending(a, b) == SortKey(a) - SortKey(b)

\* the comparator of fetchUsers' sort: negative when a goes first
compare(a, b) == SortKey(b) - SortKey(a)

\* Array.prototype.sort is stable: a row goes after every row it does not precede
RECURSIVE InsertSorted(_, _)
InsertSorted(u, sorted) ==
    IF sorted = <<>> THEN <<u>>
    ELSE IF compare(u, Head(sorted)) < 0 THEN <<u>> \o sorted
    ELSE <<Head(sorted)>> \o InsertSorted(u, Tail(sorted))

RECURSIVE sortedUsers(_)
sortedUsers(rows) ==
    IF rows = <<>> THEN <<>>
    ELSE InsertSorted(rows[Len(rows)], sortedUsers(SubSeq(rows, 1, Len(rows) - 1)))

\* a Swal dialog that awaits the administrator's answer blocks the page
DialogOpen == \E i \in 1..Len(ops) : ops[i].pc = "confirm"

\* the onAuthStateChange listener's effect on <<isLoggedIn, users>>
Listener(s, logged, rows) ==
    IF ~s.active \/ ~IsString(s.email) \/ s.email \notin ADMIN_EMAILS
    THEN <<FALSE, <<>>>>
    ELSE <<logged, rows>>

\* fetchUsers up to its await on fetch(): setLoading(true), GET list-users;
\* the request is taken to the handler's first await
FetchUsersOp == ListUsersEntry(NewOp("fetchUsers", "list-users", "GET",
                                     [json |-> "absent", id |-> NoId],
                                     CallerOf(session), "sent"))

\* useEffect: checkAdminSession, once, when the screen mounts
CheckAdminSession ==
    /\ ~mounted
    /\ mounted' = TRUE
    /\ IF session.active /\ IsString(session.email) /\ session.email \in ADMIN_EMAILS
       THEN IF session.email_confirmed_at = NullTime
            THEN /\ session' = NoSession
                 /\ isLoggedIn' = FALSE
                 /\ UNCHANGED <<ops, loading, users>>
            ELSE /\ isLoggedIn' = TRUE
                 /\ ops' = Append(ops, FetchUsersOp)
                 /\ loading' = TRUE
                 /\ UNCHANGED <<session, users>>
       ELSE /\ isLoggedIn' = FALSE
            /\ UNCHANGED <<ops, session, loading, users>>
    /\ UNCHANGED <<backend, serverVars, alert, dashVars>>

\* the login form is shown while ~isLoggedIn; its button is disabled by loading
HandleAdminLogin ==
    /\ mounted /\ ~isLoggedIn /\ ~loading /\ ~DialogOpen
    /\ Len(ops) < MaxOps
    /\ \E typed \in {AdminEmail, <<"b">>} :
        /\ \/ \* signInWithPassword returns an error
              /\ alert' = [by |-> "handleAdminLogin", title |-> "Login Failed",
                           text |-> "Invalid login credentials"]
              /\ UNCHANGED <<session, isLoggedIn, users, ops>>
           \/ \E a \in authUsers :
                /\ a.email = typed
                /\ LET heard == Listener(SessionOf(a), isLoggedIn, users)
                   IN  IF a.email_confirmed_at = NullTime
                       THEN /\ alert' = [by |-> "handleAdminLogin", title |-> "Email not confirmed",
                                      text |-> ""]
                            /\ session' = NoSession
                            /\ isLoggedIn' = FALSE
                            /\ users' = <<>>
                            /\ UNCHANGED ops
                       ELSE IF typed \notin ADMIN_EMAILS
                       THEN /\ alert' = [by |-> "handleAdminLogin", title |-> "Access Denied",
                                      text |-> ""]
                            /\ session' = NoSession
                            /\ isLoggedIn' = FALSE
                            /\ users' = <<>>
                            /\ UNCHANGED ops
                       ELSE /\ session' = SessionOf(a)
                            /\ isLoggedIn' = TRUE
                            /\ users' = heard[2]
                            /\ ops' = Append(ops, [FetchUsersOp EXCEPT !.caller = CallerOf(SessionOf(a))])
                            /\ UNCHANGED alert
    /\ loading' = FALSE
    /\ UNCHANGED <<backend, serverVars, mounted, dashVars>>

\* the fetch of fetchUsers has answered
FetchUsersResume(i) ==
    /\ ops[i].kind = "fetchUsers"
    /\ ops[i].pc = "responded"
    /\ LET data == ops[i].res
       IN  IF ~data.success
           THEN /\ alert' = [by |-> "fetchUsers", title |-> "Error",
                             text |-> IF data.error # "" THEN data.error
                                      ELSE "Failed to fetch users"]
                /\ UNCHANGED users
           ELSE /\ users' = sortedUsers(data.users)
                /\ UNCHANGED alert
    /\ loading' = FALSE
    /\ ops' = Remove(ops, i)
    /\ UNCHANGED <<backend, serverVars, session, isLoggedIn, mounted, dashVars>>

\* a click on a row's Delete button opens the confirmation dialog
HandleDelete ==
    /\ isLoggedIn /\ ~loading /\ ~DialogOpen
    /\ Len(ops) < MaxOps
    /\ \E k \in 1..Len(users) :
          ops' = Append(ops, NewOp("handleDelete", "delete-user", "POST",
                                   [json |-> "object", id |-> users[k].id],
                                   "none", "confirm"))
    /\ UNCHANGED <<backend, serverVars, screenVars, dashVars>>

HandleDeleteCancel(i) ==
    /\ ops[i].kind = "handleDelete"
    /\ ops[i].pc = "confirm"
    /\ ops' = Remove(ops, i)
    /\ UNCHANGED <<backend, serverVars, screenVars, dashVars>>

HandleDeleteConfirm(i) ==
    /\ ops[i].kind = "handleDelete"
    /\ ops[i].pc = "confirm"
    /\ loading' = TRUE
    /\ ops' = [ops EXCEPT ![i] = DeleteUserEntry([@ EXCEPT !.caller = CallerOf(session)])]
    /\ UNCHANGED <<backend, serverVars, session, isLoggedIn, users, alert,
                   mounted, dashVars>>

\* the fetch of handleDelete has answered
HandleDeleteResume(i) ==
    /\ ops[i].kind = "handleDelete"
    /\ ops[i].pc = "responded"
    /\ LET data == ops[i].res
       IN  IF ~data.success
           THEN /\ alert' = [by |-> "handleDelete", title |-> "Error",
                             text |-> IF data.error # "" THEN data.error
                                      ELSE "Failed to delete user"]
                /\ ops' = Remove(ops, i)
           ELSE /\ alert' = [by |-> "handleDelete", title |-> "Deleted!", text |-> ""]
                /\ ops' = Append(Remove(ops, i), FetchUsersOp)
    /\ loading' = FALSE
    /\ UNCHANGED <<backend, serverVars, session, isLoggedIn, users, mounted, dashVars>>

HandleLogout ==
    /\ isLoggedIn /\ ~DialogOpen
    /\ session' = NoSession
    /\ isLoggedIn' = FALSE
    /\ users' = <<>>
    /\ UNCHANGED <<backend, serverVars, ops, loading, alert, mounted, dashVars>>

\* the session ends elsewhere (another tab signs out, the token expires):
\* only the listener runs
SessionEnds ==
    /\ mounted /\ session.active
    /\ session' = NoSession
    /\ isLoggedIn' = FALSE
    /\ users' = <<>>
    /\ UNCHANGED <<backend, serverVars, ops, loading, alert, mounted, dashVars>>

-----------------------------------------------------------------------------
(* The auth store, the router and the sign-in and sign-out flows *)

Protected == {"/dashboard", "/todos"}

Routes == {"/", "/dashboard", "/todos", "/admin"}

\* ProtectedRoute: without a user in the store the sign-in page is shown
ProtectedRoute(path) == IF path \in Protected /\ storeUser = NULL THEN "/" ELSE path

\* the user opens a page
Navigate ==
    /\ \E path \in Routes :
          /\ path # route
          /\ route' = ProtectedRoute(path)
    /\ UNCHANGED <<backend, serverVars, ops, screenVars, expenses, derived, csv, expenseRows,
                   dash, now, storeUser, todoRows, todo, nextId>>

\* Auth.handleSubmit in login mode: signInWithPassword, then setUser and
\* navigate('/dashboard') for a confirmed email
SignIn ==
    /\ route = "/"
    /\ \E a \in {b \in authUsers : IsString(b.email)} :
          /\ session' = SessionOf(a)
          /\ IF a.email_confirmed_at = NullTime
             THEN UNCHANGED <<storeUser, route>>
             ELSE /\ storeUser' = [email |-> a.email]
                  /\ route' = "/dashboard"
    /\ UNCHANGED <<backend, serverVars, ops, isLoggedIn, users, loading, alert, mounted,
                   expenses, derived, csv, expenseRows, dash, now, todoRows, todo, nextId>>

\* Dashboard.handleLogout: signOut(); navigate("/")
DashboardLogout ==
    /\ route = "/dashboard"
    /\ session' = NoSession
    /\ route' = "/"
    /\ dash' = [dash EXCEPT !.email = NULL]
    /\ UNCHANGED <<backend, serverVars, ops, isLoggedIn, users, loading, alert, mounted,
                   expenses, derived, csv, expenseRows, now, storeUser, todoRows, todo, nextId>>

InitialTodo ==
    [userEmail |-> NULL, todos |-> <<>>, loading |-> FALSE, notice |-> "",
     confirm |-> [open |-> FALSE, email |-> NULL],
     newTask |-> <<>>, adding |-> FALSE, editingId |-> 0, editingText |-> <<>>,
     opLoadingId |-> 0, deleteConfirm |-> 0]

\* TodoList.handleLogout: signOut() (an exception is logged), then
\* localStorage.removeItem("user"), setUserEmail(null), setTodos([]),
\* navigate("/"); the store persists under the key auth-storage
TodoLogout ==
    /\ route = "/todos"
    /\ session' \in {NoSession, session}
    /\ todo' = [todo EXCEPT !.userEmail = NULL, !.todos = <<>>]
    /\ route' = "/"
    /\ UNCHANGED <<backend, serverVars, ops, isLoggedIn, users, loading, alert, mounted,
                   expenses, derived, csv, expenseRows, dash, now, storeUser, todoRows, nextId>>

-----------------------------------------------------------------------------
(* JS numbers.  An amount is an integer count of some power-of-two unit;   *)
(* every arithmetic result is rounded to MantissaBits significant bits,    *)
(* ties to even, as IEEE 754 does with 53.                                 *)

RECURSIVE Pow2(_)
Pow2(n) == IF n = 0 THEN 1 ELSE 2 * Pow2(n - 1)

RECURSIVE BitLen(_)
BitLen(n) == IF n = 0 THEN 0 ELSE 1 + BitLen(n \div 2)

Abs(x) == IF x < 0 THEN -x ELSE x

RoundNat(n) ==
    IF n < Pow2(MantissaBits) THEN n
    ELSE LET k    == BitLen(n) - MantissaBits
             q    == n \div Pow2(k)
             r    == n % Pow2(k)
             half == Pow2(k - 1)
         IN  IF r > half \/ (r = half /\ q % 2 = 1) THEN (q + 1) * Pow2(k)
             ELSE q * Pow2(k)

Round(x) == IF x < 0 THEN -RoundNat(-x) ELSE RoundNat(x)

\* a + b
FAdd(a, b) == Round(a + b)

\* the results of a division by zero
NaN == [m |-> 0, e |-> -1]
Infinity == [m |-> 1, e |-> -1]
NegInfinity == [m |-> -1, e |-> -1]

\* a / n for a count n >= 0: the quotient m * 2^(-e), correctly rounded
RECURSIVE ShiftFor(_, _, _)
ShiftFor(mag, n, s) ==
    IF (mag * Pow2(s)) \div n >= Pow2(MantissaBits) THEN s ELSE ShiftFor(mag, n, s + 1)

FDiv(a, n) ==
    IF n = 0 THEN (IF a = 0 THEN NaN ELSE IF a < 0 THEN NegInfinity ELSE Infinity)
    ELSE IF a = 0 THEN [m |-> 0, e |-> 0]
    ELSE LET mag    == Abs(a)
             s      == ShiftFor(mag, n, 0)
             q      == (mag * Pow2(s)) \div n
             sticky == IF (mag * Pow2(s)) % n = 0 THEN 0 ELSE 1
             m      == RoundNat(2 * q + sticky)
         IN  [m |-> IF a < 0 THEN -m ELSE m, e |-> s + 1]

-----------------------------------------------------------------------------
(* The Dashboard's derived statistics *)

Categories == {"Food", "Transport", "Other"}

Amounts == {-300, 1, 300, 500, 1200, Pow2(MantissaBits)}

\* a point of local time: calendar date and millisecond of the day
Instant(y, mo, d, ms) == [y |-> y, mo |-> mo, d |-> d, ms |-> ms]

\* a row of expenses__expenses
Row(id, email, description, amount, category, created) ==
    [id |-> id, email |-> email, description |-> description, amount |-> amount,
     category |-> category, created_at |-> created]

\* rows that differ in amount and category only
Expense ==
    {Row(0, <<"a">>, <<"x">>, a, c, Instant(2024, 1, 15, 0)) : a \in Amounts, c \in Categories}

\* rows that differ in the month they were created in
MonthlyExpense ==
    {Row(0, <<"a">>, <<"x">>, a, "Food", Instant(y, mo, 1, 0)) :
        a \in {1, 300}, y \in {2023, 2024}, mo \in {2, 9, 10, 12}}

\* the rows of a list have ids of their own
WithIds(q) == [k \in 1..Len(q) |-> [q[k] EXCEPT !.id = k]]

\* expenses.reduce((s, e) => s + e.amount, 0)
RECURSIVE totalAmount(_)
totalAmount(exps) ==
    IF exps = <<>> THEN 0
    ELSE FAdd(totalAmount(SubSeq(exps, 1, Len(exps) - 1)), exps[Len(exps)].amount)

count(exps) == Len(exps)

Max(S) == CHOOSE x \in S : \A y \in S : y <= x

\* the maximum taken by a fold that starts from 0
highestFromZero(exps) == Max({0} \cup {exps[i].amount : i \in 1..Len(exps)})

\* expenses.length === 0 ? 0 : Math.max(...expenses.map((e) => e.amount))
highest(exps) == IF Len(exps) = 0 THEN 0 ELSE Max({exps[i].amount : i \in 1..Len(exps)})

\* totalAmount / count, whatever the count
avgUnguarded(exps) == FDiv(totalAmount(exps), count(exps))

\* count === 0 ? 0 : totalAmount / count
avg(exps) == IF count(exps) = 0 THEN [m |-> 0, e |-> 0] ELSE FDiv(totalAmount(exps), count(exps))

\* map[e.category] = e.amount: the amount replaces the running total
AccumulateOverwrite(map, e) ==
    IF \E k \in 1..Len(map) : map[k].category = e.category
    THEN [k \in 1..Len(map) |->
             IF map[k].category = e.category
             THEN [map[k] EXCEPT !.total = e.amount]
             ELSE map[k]]
    ELSE Append(map, [category |-> e.category, total |-> e.amount])

\* map[e.category] = (map[e.category] || 0) + e.amount: the keys are kept in
\* the order of their first assignment
Accumulate(map, e) ==
    IF \E k \in 1..Len(map) : map[k].category = e.category
    THEN [k \in 1..Len(map) |->
             IF map[k].category = e.category
             THEN [map[k] EXCEPT !.total = FAdd(map[k].total, e.amount)]
             ELSE map[k]]
    ELSE Append(map, [category |-> e.category, total |-> FAdd(0, e.amount)])

RECURSIVE categoryMap(_)
categoryMap(exps) ==
    IF exps = <<>> THEN <<>>
    ELSE Accumulate(categoryMap(SubSeq(exps, 1, Len(exps) - 1)), exps[Len(exps)])

\* .sort((a, b) => map[b] - map[a]), stable
RECURSIVE InsertByTotal(_, _)
InsertByTotal(c, sorted) ==
    IF sorted = <<>> THEN <<c>>
    ELSE IF Head(sorted).total - c.total < 0 THEN <<c>> \o sorted
    ELSE <<Head(sorted)>> \o InsertByTotal(c, Tail(sorted))

RECURSIVE SortByTotal(_)
SortByTotal(map) ==
    IF map = <<>> THEN <<>>
    ELSE InsertByTotal(map[Len(map)], SortByTotal(SubSeq(map, 1, Len(map) - 1)))

categoryData(exps) == SortByTotal(categoryMap(exps))

pieData(exps) ==
    LET data == categoryData(exps)
    IN  [k \in 1..Len(data) |-> [name |-> data[k].category, value |-> data[k].total]]

\* pieData.reduce((s, p) => s + p.value, 0)
RECURSIVE SumValues(_)
SumValues(pie) ==
    IF pie = <<>> THEN 0
    ELSE FAdd(SumValues(SubSeq(pie, 1, Len(pie) - 1)), pie[Len(pie)].value)

totalByCategories(exps) == SumValues(pieData(exps))

\* Date.prototype.getFullYear and getMonth (0-based) of new Date(created_at)
getFullYear(t) == t.y
getMonth(t) == t.mo - 1

DigitChar(d) ==
    CASE d = 0 -> "0" [] d = 1 -> "1" [] d = 2 -> "2" [] d = 3 -> "3" [] d = 4 -> "4"
      [] d = 5 -> "5" [] d = 6 -> "6" [] d = 7 -> "7" [] d = 8 -> "8" [] d = 9 -> "9"

\* String(n) of a natural number
RECURSIVE Str(_)
Str(n) == IF n < 10 THEN <<DigitChar(n)>> ELSE Str(n \div 10) \o <<DigitChar(n % 10)>>

\* s.padStart(2, "0")
padStart2(s) == IF Len(s) = 0 THEN <<"0", "0">> ELSE IF Len(s) = 1 THEN <<"0">> \o s ELSE s

\* the key without the padding of the month
monthKeyUnpadded(t) == Str(getFullYear(t)) \o <<"-">> \o Str(getMonth(t) + 1)

\* `${d.getFullYear()}-${String(d.getMonth() + 1).padStart(2, "0")}`
monthKey(t) == Str(getFullYear(t)) \o <<"-">> \o padStart2(Str(getMonth(t) + 1))

\* UTF-16 code unit of the characters a key is made of
CodeUnit(c) ==
    CASE c = "-" -> 45 [] c = "0" -> 48 [] c = "1" -> 49 [] c = "2" -> 50 [] c = "3" -> 51
      [] c = "4" -> 52 [] c = "5" -> 53 [] c = "6" -> 54 [] c = "7" -> 55 [] c = "8" -> 56
      [] c = "9" -> 57

\* a < b as Array.prototype.sort() without comparator orders strings
RECURSIVE StrLess(_, _)
StrLess(a, b) ==
    IF b = <<>> THEN FALSE
    ELSE IF a = <<>> THEN TRUE
    ELSE IF Head(a) # Head(b) THEN CodeUnit(Head(a)) < CodeUnit(Head(b))
    ELSE StrLess(Tail(a), Tail(b))

\* map[key] = (map[key] || 0) + e.amount
AccumulateMonth(map, e) ==
    LET key == monthKey(e.created_at)
    IN  IF \E k \in 1..Len(map) : map[k].key = key
        THEN [k \in 1..Len(map) |->
                 IF map[k].key = key
                 THEN [map[k] EXCEPT !.total = FAdd(map[k].total, e.amount)]
                 ELSE map[k]]
        ELSE Append(map, [key |-> key, total |-> FAdd(0, e.amount)])

RECURSIVE monthMap(_)
monthMap(exps) ==
    IF exps = <<>> THEN <<>>
    ELSE AccumulateMonth(monthMap(SubSeq(exps, 1, Len(exps) - 1)), exps[Len(exps)])

RECURSIVE InsertByKey(_, _)
InsertByKey(c, sorted) ==
    IF sorted = <<>> THEN <<c>>
    ELSE IF StrLess(c.key, Head(sorted).key) THEN <<c>> \o sorted
    ELSE <<Head(sorted)>> \o InsertByKey(c, Tail(sorted))

\* Object.keys(map).sort()
RECURSIVE SortByKey(_)
SortByKey(map) ==
    IF map = <<>> THEN <<>>
    ELSE InsertByKey(map[Len(map)], SortByKey(SubSeq(map, 1, Len(map) - 1)))

DigitValue(c) == CodeUnit(c) - 48

\* Number(s) of a string of digits
RECURSIVE Number(_)
Number(str) ==
    IF str = <<>> THEN 0
    ELSE 10 * Number(SubSeq(str, 1, Len(str) - 1)) + DigitValue(str[Len(str)])

\* k.split("-"): the parts between the dashes
RECURSIVE split(_)
split(k) ==
    IF \A i \in 1..Len(k) : k[i] # "-" THEN <<k>>
    ELSE LET i == CHOOSE j \in 1..Len(k) : k[j] = "-" /\ \A h \in 1..(j - 1) : k[h] # "-"
         IN  <<SubSeq(k, 1, i - 1)>> \o split(SubSeq(k, i + 1, Len(k)))

\* new Date(Number(y), Number(m) - 1) shown as month and year
monthLabel(k) ==
    LET parts == split(k)
    IN  [year |-> Number(parts[1]), monthIndex |-> Number(parts[2]) - 1]

monthlyData(exps) ==
    LET sorted == SortByKey(monthMap(exps))
    IN  [k \in 1..Len(sorted) |->
            [month |-> monthLabel(sorted[k].key), total |-> sorted[k].total]]

\* what a render of the Dashboard computes from its expenses state (deps:
\* the useMemo dependency the values were computed for)
Derive(exps) ==
    [rendered |-> TRUE, deps |-> exps, totalAmount |-> totalAmount(exps), count |-> count(exps),
     highest |-> highest(exps), avg |-> avg(exps),
     categoryData |-> categoryData(exps),
     totalByCategories |-> totalByCategories(exps),
     monthKeys |-> [k \in 1..Len(monthMap(exps)) |-> SortByKey(monthMap(exps))[k].key],
     monthlyData |-> monthlyData(exps)]

\* before the component has rendered
NotRendered == [Derive(<<>>) EXCEPT !.rendered = FALSE]

\* String(n) of an integer amount
StrInt(n) == IF n < 0 THEN <<"-">> \o Str(-n) ELSE Str(n)

\* new Date(created_at).toLocaleString() in the en-US form
\* "M/D/YYYY, time AM|PM"; the time is written as its millisecond count
toLocaleString(t) ==
    Str(t.mo) \o <<"/">> \o Str(t.d) \o <<"/">> \o Str(t.y) \o <<",", " ">> \o Str(t.ms)
        \o (IF t.ms < 43200000 THEN <<" ", "A", "M">> ELSE <<" ", "P", "M">>)

RECURSIVE Join(_, _)
Join(parts, sep) ==
    IF parts = <<>> THEN <<>>
    ELSE IF Len(parts) = 1 THEN parts[1]
    ELSE parts[1] \o sep \o Join(Tail(parts), sep)

\* description.replace(/"/g, '""')
RECURSIVE DoubleQuotes(_)
DoubleQuotes(str) ==
    IF str = <<>> THEN <<>>
    ELSE (IF Head(str) = "\"" THEN <<"\"", "\"">> ELSE <<Head(str)>>) \o DoubleQuotes(Tail(str))

\* the two sources of exportCSV
ExportVariants == {"part_003", "Dashboard.tsx"}

\* `"${e.description.replace(/"/g, '""') }` in part_003 (no closing quote),
\* `"${e.description.replace(/"/g, '""')}"` in Dashboard.tsx
DescriptionField(variant, description) ==
    IF variant = "part_003" THEN <<"\"">> \o DoubleQuotes(description)
    ELSE <<"\"">> \o DoubleQuotes(description) \o <<"\"">>

csvHeaders == <<<<"D">>, <<"A">>, <<"C">>, <<"T">>>>

\* category names as text
CategoryText(c) ==
    CASE c = "Food" -> <<"F", "o", "o", "d">>
      [] c = "Transport" -> <<"T", "r", "a", "n", "s", "p", "o", "r", "t">>
      [] OTHER -> <<"O", "t", "h", "e", "r">>

csvRow(variant, e) ==
    <<DescriptionField(variant, e.description), StrInt(e.amount), CategoryText(e.category),
      toLocaleString(e.created_at)>>

\* [headers.join(","), ...rows.map((r) => r.join(","))].join("\n")
csvContent(variant, exps) ==
    Join(<<Join(csvHeaders, <<",">>)>>
         \o [k \in 1..Len(exps) |-> Join(csvRow(variant, exps[k]), <<",">>)],
         <<"\n">>)

\* encodeURI: the characters it escapes, among those a file is made of
EncodeChar(c) ==
    CASE c = "\"" -> <<"%", "2", "2">>
      [] c = " "  -> <<"%", "2", "0">>
      [] c = "\n" -> <<"%", "0", "A">>
      [] OTHER    -> <<c>>

RECURSIVE encodeURI(_)
encodeURI(str) == IF str = <<>> THEN <<>> ELSE EncodeChar(Head(str)) \o encodeURI(Tail(str))

\* what the browser saves for a data: URI: the fragment (from the first #)
\* is dropped and the percent escapes are decoded
RECURSIVE DecodeData(_)
DecodeData(uri) ==
    IF uri = <<>> \/ Head(uri) = "#" THEN <<>>
    ELSE IF Head(uri) = "%" /\ Len(uri) >= 3
         THEN (CASE SubSeq(uri, 2, 3) = <<"2", "2">> -> <<"\"">>
                 [] SubSeq(uri, 2, 3) = <<"2", "0">> -> <<" ">>
                 [] SubSeq(uri, 2, 3) = <<"0", "A">> -> <<"\n">>
                 [] OTHER -> SubSeq(uri, 1, 3))
              \o DecodeData(SubSeq(uri, 4, Len(uri)))
         ELSE <<Head(uri)>> \o DecodeData(Tail(uri))

NoDownload == [exported |-> FALSE, variant |-> "", text |-> <<>>]

\* exportCSV: nothing is downloaded for an empty list
ExportCSV ==
    /\ expenses # <<>>
    /\ \E v \in ExportVariants :
          csv' = [exported |-> TRUE, variant |-> v,
                  text |-> DecodeData(encodeURI(csvContent(v, expenses)))]
    /\ UNCHANGED <<backend, serverVars, ops, screenVars, expenses, derived, fetchVars>>

-----------------------------------------------------------------------------
(* The Dashboard's list: fetchExpenses *)

\* a <= b for two points of local time
InstLeq(a, b) ==
    \/ a.y < b.y
    \/ a.y = b.y /\ a.mo < b.mo
    \/ a.y = b.y /\ a.mo = b.mo /\ a.d < b.d
    \/ a.y = b.y /\ a.mo = b.mo /\ a.d = b.d /\ a.ms <= b.ms

IsLeap(y) == (y % 4 = 0 /\ y % 100 # 0) \/ y % 400 = 0

DaysInMonth(y, mo) ==
    IF mo = 2 THEN (IF IsLeap(y) THEN 29 ELSE 28)
    ELSE IF mo \in {4, 6, 9, 11} THEN 30 ELSE 31

\* Date.prototype.setDate(n) for n below 1: the days run back into the
\* months before
RECURSIVE setDate(_, _)
setDate(t, n) ==
    IF n >= 1 THEN [t EXCEPT !.d = n]
    ELSE LET py == IF t.mo = 1 THEN t.y - 1 ELSE t.y
             pm == IF t.mo = 1 THEN 12 ELSE t.mo - 1
         IN  setDate([t EXCEPT !.y = py, !.mo = pm], n + DaysInMonth(py, pm))

LastMs == 86399999

\* the clock readings of the browser
Clocks == {Instant(2024, 3, 5, 43200000), Instant(2024, 1, 3, 43200000)}

Clock == Instant(2024, 3, 5, 43200000)

\* the value of a date input: "" / null, or "YYYY-MM-DD"
NoDate == [y |-> 0, mo |-> 0, d |-> 0]

\* new Date(startDate + "T00:00:00")
StartOfDay(date) == Instant(date.y, date.mo, date.d, 0)
\* the end date taken at its first millisecond
EndOfDayMidnight(date) == Instant(date.y, date.mo, date.d, 0)

\* new Date(endDate + "T23:59:59.999")
EndOfDay(date) == Instant(date.y, date.mo, date.d, LastMs)

\* a bound of the query: .gte / .lte on created_at, or none
NoBound == [set |-> FALSE, at |-> Instant(0, 0, 0, 0)]
Bound(t) == [set |-> TRUE, at |-> t]

Filters == {"today", "week", "month", "all"}

\* the bounds with the named filter applied whether or not a range is set
DateBoundsCombined(d, clock) ==
    LET named ==
            IF d.filter = "today"
            THEN [gte |-> Bound(Instant(clock.y, clock.mo, clock.d, 0)),
                  lte |-> Bound(Instant(clock.y, clock.mo, clock.d, LastMs))]
            ELSE IF d.filter = "week"
            THEN [gte |-> Bound(setDate(clock, clock.d - 7)), lte |-> NoBound]
            ELSE IF d.filter = "month"
            THEN [gte |-> Bound(Instant(clock.y, clock.mo, 1, 0)), lte |-> NoBound]
            ELSE [gte |-> NoBound, lte |-> NoBound]
    IN  [gte |-> IF d.startDate # NoDate THEN Bound(StartOfDay(d.startDate)) ELSE named.gte,
         lte |-> IF d.endDate # NoDate THEN Bound(EndOfDay(d.endDate)) ELSE named.lte]

\* the bounds fetchExpenses puts on created_at
DateBounds(d, clock) ==
    IF d.startDate # NoDate \/ d.endDate # NoDate
    THEN [gte |-> IF d.startDate # NoDate THEN Bound(StartOfDay(d.startDate)) ELSE NoBound,
          lte |-> IF d.endDate # NoDate THEN Bound(EndOfDay(d.endDate)) ELSE NoBound]
    ELSE IF d.filter = "today"
    THEN [gte |-> Bound(Instant(clock.y, clock.mo, clock.d, 0)),
          lte |-> Bound(Instant(clock.y, clock.mo, clock.d, LastMs))]
    ELSE IF d.filter = "week"
    THEN [gte |-> Bound(setDate(clock, clock.d - 7)), lte |-> NoBound]
    ELSE IF d.filter = "month"
    THEN [gte |-> Bound(Instant(clock.y, clock.mo, 1, 0)), lte |-> NoBound]
    ELSE [gte |-> NoBound, lte |-> NoBound]

\* the rows a query selects: .eq("email", email), .gte and .lte
Selected(rows, q) ==
    {r \in rows :
        /\ r.email = q.email
        /\ q.gte.set => InstLeq(q.gte.at, r.created_at)
        /\ q.lte.set => InstLeq(r.created_at, q.lte.at)}

\* .order("created_at", { ascending: false })
RECURSIVE OrderDesc(_)
OrderDesc(S) ==
    IF S = {} THEN <<>>
    ELSE LET first == CHOOSE r \in S : \A o \in S : InstLeq(o.created_at, r.created_at)
         IN  <<first>> \o OrderDesc(S \ {first})

\* String.prototype.trim
RECURSIVE trim(_)
trim(str) ==
    IF str = <<>> THEN <<>>
    ELSE IF Head(str) = " " THEN trim(Tail(str))
    ELSE IF str[Len(str)] = " " THEN trim(SubSeq(str, 1, Len(str) - 1))
    ELSE str

\* String.prototype.includes
includes(hay, needle) ==
    \E i \in 1..(Len(hay) + 1) :
        /\ i + Len(needle) - 1 <= Len(hay)
        /\ SubSeq(hay, i, i + Len(needle) - 1) = needle

\* the predicate of results.filter for a prepared term
SearchKeeps(e, term) ==
    \/ includes(toLowerCase(e.description), term)
    \/ includes(toLowerCase(CategoryText(e.category)), term)
    \/ includes(StrInt(e.amount), term)
    \/ includes(toLowerCase(toLocaleString(e.created_at)), term)

\* the term compared as typed, neither trimmed nor lower-cased
ApplySearchRaw(results, searchTerm) ==
    IF searchTerm # <<>> /\ trim(searchTerm) # <<>>
    THEN SelectSeq(results, LAMBDA e : SearchKeeps(e, searchTerm))
    ELSE results

\* if (searchTerm && searchTerm.trim() !== "") results = results.filter(...)
ApplySearch(results, searchTerm) ==
    IF searchTerm # <<>> /\ trim(searchTerm) # <<>>
    THEN SelectSeq(results, LAMBDA e : SearchKeeps(e, toLowerCase(trim(searchTerm))))
    ELSE results

\* the Dashboard's state after mounting
\* editingId / deletingId null: ids of rows are positive
NoRow == 0

\* no confirmation dialog is shown
NoConfirm ==
    [open |-> FALSE, email |-> NULL, filter |-> "all", startDate |-> NoDate,
     endDate |-> NoDate, searchTerm |-> <<>>]

InitialDash ==
    [email |-> NULL, filter |-> "all", startDate |-> NoDate, endDate |-> NoDate,
     searchTerm |-> <<>>, loading |-> FALSE, budget |-> NoValue,
     budgetLoading |-> FALSE, notice |-> "", clearLoading |-> FALSE, confirm |-> NoConfirm,
     description |-> <<>>, amount |-> NoValue, category |-> "Other", editingId |-> NoRow,
     formLoading |-> FALSE, deletingId |-> NoRow, deleteConfirm |-> NoRow]

\* fetchExpenses up to its await: nothing is sent without an email
FetchExpensesOp(d, clock) ==
    [kind |-> "fetchExpenses", pc |-> "query",
     q |-> [email |-> d.email] @@ DateBounds(d, clock),
     searchTerm |-> d.searchTerm, params |-> d, clock |-> clock,
     data |-> <<>>, error |-> ""]

\* fetchBudget up to its await
FetchBudgetOp(email) ==
    [kind |-> "fetchBudget", pc |-> "query", email |-> email, data |-> NoValue, error |-> ""]

\* the effect on [email, filter, startDate, endDate, searchTerm]:
\* fetchExpenses(); fetchBudget(), each returning at once without an email
Effect(d) ==
    IF d.email = NULL
    THEN /\ dash' = d
         /\ UNCHANGED ops
    ELSE /\ dash' = [d EXCEPT !.loading = TRUE]
         /\ ops' = ops \o <<FetchExpensesOp(d, now), FetchBudgetOp(d.email)>>

InFlight(kind) == Cardinality({i \in 1..Len(ops) : ops[i].kind = kind})

\* the user acts while fewer than MaxFetches effects are in flight
CanStart == InFlight("fetchExpenses") < MaxFetches /\ InFlight("fetchBudget") < MaxFetches

DashFrame == UNCHANGED <<backend, serverVars, screenVars, derived, csv, now, appVars>>

\* the first id the database gives out after the rows it starts with
FirstId == 20

\* the router shows the Dashboard, the TodoList
OnDashboard == route = "/dashboard"

OnTodos == route = "/todos"

\* a Swal confirmation awaits the user's answer and blocks the page
DashDialogOpen == dash.confirm.open \/ dash.deleteConfirm # NoRow

TodoDialogOpen == todo.confirm.open \/ todo.deleteConfirm # NoRow

\* the user edits the fields of a form or picks a row of the list
Typing == Len(ops) <= MaxBusy

\* onAuthStateChange / getUser: setEmail
SetEmail ==
    /\ OnDashboard /\ CanStart
    /\ \E e \in {NULL, <<"a">>, <<"b">>} :
          /\ e # dash.email
          /\ Effect([dash EXCEPT !.email = e])
    /\ DashFrame /\ UNCHANGED <<expenses, expenseRows>>

SetFilter ==
    /\ OnDashboard /\ CanStart
    /\ \E f \in Filters :
          /\ f # dash.filter
          /\ Effect([dash EXCEPT !.filter = f])
    /\ DashFrame /\ UNCHANGED <<expenses, expenseRows>>

\* the filter is changed while effects are still in flight: nothing
\* cancels or waits for them
SetFilterAgain ==
    /\ OnDashboard
    /\ InFlight("fetchExpenses") < MaxRacing /\ InFlight("fetchBudget") < MaxRacing
    /\ \E f \in Filters :
          /\ f # dash.filter
          /\ Effect([dash EXCEPT !.filter = f])
    /\ DashFrame /\ UNCHANGED <<expenses, expenseRows>>

DateInputs == {NoDate, [y |-> 2024, mo |-> 3, d |-> 1], [y |-> 2024, mo |-> 3, d |-> 5]}

SetStartDate ==
    /\ OnDashboard /\ CanStart
    /\ \E v \in DateInputs :
          /\ v # dash.startDate
          /\ Effect([dash EXCEPT !.startDate = v])
    /\ DashFrame /\ UNCHANGED <<expenses, expenseRows>>

SetEndDate ==
    /\ OnDashboard /\ CanStart
    /\ \E v \in DateInputs :
          /\ v # dash.endDate
          /\ Effect([dash EXCEPT !.endDate = v])
    /\ DashFrame /\ UNCHANGED <<expenses, expenseRows>>

SearchTerms == {<<>>, <<" ">>, <<" ", "F", " ">>, <<"3">>, <<"a", "m">>}

SetSearchTerm ==
    /\ OnDashboard /\ CanStart
    /\ \E v \in SearchTerms :
          /\ v # dash.searchTerm
          /\ Effect([dash EXCEPT !.searchTerm = v])
    /\ DashFrame /\ UNCHANGED <<expenses, expenseRows>>

\* const res = await query: the table answers with the rows or an error
QueryStep(i) ==
    /\ ops[i].kind = "fetchExpenses" /\ ops[i].pc = "query"
    /\ \/ ops' = [ops EXCEPT ![i] = [@ EXCEPT !.pc = "responded",
                       !.data = OrderDesc(Selected(expenseRows, ops[i].q))]]
       \/ \E err \in TableErrors :
             ops' = [ops EXCEPT ![i] = [@ EXCEPT !.pc = "responded", !.error = err]]
    /\ DashFrame /\ UNCHANGED <<expenses, expenseRows, dash>>

\* the rows of expenses_profiles with an email
ProfilesOf(email) == {k \in 1..Len(profiles) : profiles[k].email = email}

SingleError == "JSON object requested, multiple (or no) rows returned"

\* await ...select("budget").eq("email", email).single()
BudgetQueryStep(i) ==
    /\ ops[i].kind = "fetchBudget" /\ ops[i].pc = "query"
    /\ \/ ops' = [ops EXCEPT ![i] =
                     IF Cardinality(ProfilesOf(ops[i].email)) = 1
                     THEN [@ EXCEPT !.pc = "responded",
                              !.data = profiles[CHOOSE k \in ProfilesOf(ops[i].email) : TRUE].budget]
                     ELSE [@ EXCEPT !.pc = "responded", !.error = SingleError]]
       \/ \E err \in TableErrors :
             ops' = [ops EXCEPT ![i] = [@ EXCEPT !.pc = "responded", !.error = err]]
    /\ DashFrame /\ UNCHANGED <<expenses, expenseRows, dash>>

\* fetchBudget after its await: setBudget(data.budget ?? "")
FetchBudgetResume(i) ==
    /\ ops[i].kind = "fetchBudget" /\ ops[i].pc = "responded"
    /\ dash' = IF ops[i].error # "" THEN dash ELSE [dash EXCEPT !.budget = ops[i].data]
    /\ ops' = Remove(ops, i)
    /\ DashFrame /\ UNCHANGED <<expenses, expenseRows>>

BudgetInputs == {NoValue, Value(0), Value(100), Value(200)}

\* onChange of the budget input
SetBudget ==
    /\ OnDashboard
    /\ \E v \in BudgetInputs :
          /\ v # dash.budget
          /\ dash' = [dash EXCEPT !.budget = v]
    /\ DashFrame /\ UNCHANGED <<expenses, expenseRows, ops>>

\* handleSaveBudget up to its await: nothing is sent without an email or
\* with an empty input
HandleSaveBudget ==
    /\ OnDashboard /\ CanStart
    /\ dash.email # NULL /\ dash.budget.set
    /\ ~dash.budgetLoading
    /\ dash' = [dash EXCEPT !.budgetLoading = TRUE, !.notice = ""]
    /\ ops' = Append(ops, [kind |-> "saveBudget", pc |-> "update", email |-> dash.email,
                            value |-> dash.budget.v, error |-> ""])
    /\ DashFrame /\ UNCHANGED <<expenses, expenseRows>>

\* await ...update({ budget: budgetValue }).eq("email", email): the rows
\* with that email, none included, are updated without an error
SaveBudgetStep(i) ==
    /\ ops[i].kind = "saveBudget" /\ ops[i].pc = "update"
    /\ \/ /\ profiles' = [k \in 1..Len(profiles) |->
                             IF profiles[k].email = ops[i].email
                             THEN [profiles[k] EXCEPT !.budget = Value(ops[i].value)]
                             ELSE profiles[k]]
          /\ ops' = [ops EXCEPT ![i] = [@ EXCEPT !.pc = "responded"]]
       \/ \E err \in TableErrors :
             /\ ops' = [ops EXCEPT ![i] = [@ EXCEPT !.pc = "responded", !.error = err]]
             /\ UNCHANGED profiles
    /\ UNCHANGED <<backend, authUsers, screenVars, derived, csv, now, expenses, expenseRows,
                   dash, appVars>>

\* handleSaveBudget after its await
SaveBudgetResume(i) ==
    /\ ops[i].kind = "saveBudget" /\ ops[i].pc = "responded"
    /\ IF ops[i].error # ""
       THEN /\ dash' = [dash EXCEPT !.budgetLoading = FALSE]
            /\ ops' = Remove(ops, i)
       ELSE /\ dash' = [dash EXCEPT !.budgetLoading = FALSE, !.notice = "Budget saved"]
            /\ ops' = Append(Remove(ops, i), FetchBudgetOp(dash.email))
    /\ DashFrame /\ UNCHANGED <<expenses, expenseRows>>

\* fetchExpenses after its await
FetchExpensesResume(i) ==
    /\ ops[i].kind = "fetchExpenses" /\ ops[i].pc = "responded"
    /\ expenses' = IF ops[i].error # "" THEN <<>>
                   ELSE ApplySearch(ops[i].data, ops[i].searchTerm)
    /\ dash' = [dash EXCEPT !.loading = FALSE]
    /\ ops' = Remove(ops, i)
    /\ DashFrame /\ UNCHANGED expenseRows

-----------------------------------------------------------------------------
(* Clear all: the Dashboard's expenses and the TodoList's tasks *)

\* handleClearExpenses up to its dialog: returns at once without an email;
\* the handler keeps the state of the render it was called in
HandleClearExpenses ==
    /\ OnDashboard /\ ~DashDialogOpen /\ Typing
    /\ dash.email # NULL
    /\ ~dash.confirm.open /\ ~dash.clearLoading
    /\ dash' = [dash EXCEPT !.confirm =
                   [open |-> TRUE, email |-> dash.email, filter |-> dash.filter,
                    startDate |-> dash.startDate, endDate |-> dash.endDate,
                    searchTerm |-> dash.searchTerm]]
    /\ DashFrame /\ UNCHANGED <<expenses, expenseRows, ops>>

\* the dialog is dismissed: result.isConfirmed is false
ClearCancel ==
    /\ dash.confirm.open
    /\ dash' = [dash EXCEPT !.confirm = NoConfirm]
    /\ DashFrame /\ UNCHANGED <<expenses, expenseRows, ops>>

\* a delete of the table filtered by the handler's email
ClearRequest(kind, c) ==
    [kind |-> kind, pc |-> "delete", email |-> c.email, closure |-> c, error |-> ""]

\* "Yes, clear all": setClearLoading(true) and the delete is sent
ClearConfirm ==
    /\ dash.confirm.open
    /\ dash' = [dash EXCEPT !.confirm = NoConfirm, !.clearLoading = TRUE]
    /\ ops' = Append(ops, ClearRequest("clearExpenses", dash.confirm))
    /\ DashFrame /\ UNCHANGED <<expenses, expenseRows>>

\* a delete without the filter on email
DeleteEveryRow(rows, op) == {}

\* delete().eq("email", email) on a table
DeleteRows(rows, op) == {r \in rows : r.email # op.email}

\* await supabase.from("expenses__expenses").delete().eq("email", email)
ClearDeleteStep(i) ==
    /\ ops[i].kind = "clearExpenses" /\ ops[i].pc = "delete"
    /\ \/ /\ expenseRows' = DeleteRows(expenseRows, ops[i])
          /\ ops' = [ops EXCEPT ![i] = [@ EXCEPT !.pc = "responded"]]
       \/ \E err \in TableErrors :
             /\ ops' = [ops EXCEPT ![i] = [@ EXCEPT !.pc = "responded", !.error = err]]
             /\ UNCHANGED expenseRows
    /\ DashFrame /\ UNCHANGED <<expenses, dash>>

Awaited(op) == "awaitedBy" \in DOMAIN op

\* handleClearExpenses after the delete: the error alert, or
\* await fetchExpenses() with the handler's state
ClearResume(i) ==
    /\ ops[i].kind = "clearExpenses" /\ ops[i].pc = "responded"
    /\ IF ops[i].error # ""
       THEN /\ dash' = [dash EXCEPT !.clearLoading = FALSE, !.notice = ops[i].error]
            /\ ops' = Remove(ops, i)
       ELSE /\ dash' = [dash EXCEPT !.loading = TRUE]
            /\ ops' = Append([ops EXCEPT ![i] = [@ EXCEPT !.pc = "refetch"]],
                             [awaitedBy |-> "clearExpenses"]
                                @@ FetchExpensesOp(ops[i].closure, now))
    /\ DashFrame /\ UNCHANGED <<expenses, expenseRows>>

\* handleClearExpenses after fetchExpenses returned: the "Cleared" alert
ClearFinish(i) ==
    /\ ops[i].kind = "clearExpenses" /\ ops[i].pc = "refetch"
    /\ \A j \in 1..Len(ops) : ~Awaited(ops[j])
    /\ dash' = [dash EXCEPT !.clearLoading = FALSE, !.notice = "Cleared"]
    /\ ops' = Remove(ops, i)
    /\ DashFrame /\ UNCHANGED <<expenses, expenseRows>>

-----------------------------------------------------------------------------
(* The expense form: add, edit, save and delete *)

\* the state fetchExpenses reads in the render a handler was called in
FetchArgs(d) ==
    [email |-> d.email, filter |-> d.filter, startDate |-> d.startDate,
     endDate |-> d.endDate, searchTerm |-> d.searchTerm]

FormDescriptions == {<<>>, <<"y">>}

FormAmounts == {NoValue, Value(0), Value(5)}

\* onChange of the description input
SetDescription ==
    /\ OnDashboard /\ ~DashDialogOpen /\ Typing
    /\ \E v \in FormDescriptions :
          /\ v # dash.description
          /\ dash' = [dash EXCEPT !.description = v]
    /\ DashFrame /\ UNCHANGED <<expenses, expenseRows, ops>>

\* onChange of the amount input
SetAmount ==
    /\ OnDashboard /\ ~DashDialogOpen /\ Typing
    /\ \E v \in FormAmounts :
          /\ v # dash.amount
          /\ dash' = [dash EXCEPT !.amount = v]
    /\ DashFrame /\ UNCHANGED <<expenses, expenseRows, ops>>

\* handleEditExpense: the row's values go into the form
HandleEditExpense ==
    /\ OnDashboard /\ ~DashDialogOpen /\ Typing
    /\ \E k \in 1..Len(expenses) :
          /\ expenses[k].id # dash.editingId
          /\ dash' = [dash EXCEPT !.editingId = expenses[k].id,
                                  !.description = expenses[k].description,
                                  !.amount = Value(expenses[k].amount),
                                  !.category = expenses[k].category]
    /\ DashFrame /\ UNCHANGED <<expenses, expenseRows, ops>>

\* handleCancelEdit: the Cancel button is shown while editingId is set
HandleCancelEdit ==
    /\ OnDashboard /\ ~DashDialogOpen /\ Typing
    /\ dash.editingId # NoRow
    /\ dash' = [dash EXCEPT !.editingId = NoRow, !.description = <<>>,
                            !.amount = NoValue, !.category = "Other"]
    /\ DashFrame /\ UNCHANGED <<expenses, expenseRows, ops>>

\* FormInvalid without the test of the description
FormInvalidAmountOnly(d) == ~d.amount.set \/ d.amount.v = 0 \/ d.email = NULL

\* !description || !amount || !email: "" , 0 and null are falsy
FormInvalid(d) == d.description = <<>> \/ ~d.amount.set \/ d.amount.v = 0 \/ d.email = NULL

\* the request of the form: an update of row editingId, or an insert
SaveRequest(d, via) ==
    [kind |-> "saveExpense", via |-> via, pc |-> "mutate",
     mode |-> IF d.editingId # NoRow THEN "update" ELSE "insert",
     id |-> d.editingId, email |-> d.email, description |-> d.description,
     amount |-> d.amount.v, category |-> d.category, closure |-> FetchArgs(d),
     matched |-> 0, error |-> ""]

\* requests of the form in flight
Saves(o) == {i \in 1..Len(o) : o[i].kind = "saveExpense"}

\* an Add / Save button that is never disabled
AddNeverDisabled(d) == FALSE

\* disabled={formLoading} of the Add / Save button
AddDisabled(d) == d.formLoading

\* handleAddOrSave, the Add / Save button (disabled by formLoading), up to
\* its await: setFormLoading(true), then the validation
HandleAddOrSave ==
    /\ OnDashboard /\ ~DashDialogOpen
    /\ ~AddDisabled(dash)
    /\ Cardinality(Saves(ops)) < MaxSaves /\ nextId < FirstId + MaxInserts
    /\ IF FormInvalid(dash)
       THEN UNCHANGED <<dash, ops>>
       ELSE /\ dash' = [dash EXCEPT !.formLoading = TRUE]
            /\ ops' = Append(ops, SaveRequest(dash, "button"))
    /\ DashFrame /\ UNCHANGED <<expenses, expenseRows>>

\* handleAddExpense, the form's submit (Enter in an input), up to its
\* await; the inputs are required, so the browser submits a filled form only
HandleAddExpense ==
    /\ OnDashboard /\ ~DashDialogOpen
    /\ dash.description # <<>> /\ dash.amount.set
    /\ Cardinality(Saves(ops)) < MaxSaves /\ nextId < FirstId + MaxInserts
    /\ IF FormInvalid(dash)
       THEN UNCHANGED ops
       ELSE ops' = Append(ops, SaveRequest(dash, "submit"))
    /\ UNCHANGED dash
    /\ DashFrame /\ UNCHANGED <<expenses, expenseRows>>

\* the table takes the insert or the update: an update by id changes the
\* rows with that id, none included, without an error
SaveStep(i) ==
    /\ ops[i].kind = "saveExpense" /\ ops[i].pc = "mutate"
    /\ \/ /\ ops[i].mode = "insert"
          /\ expenseRows' = expenseRows \cup
                {Row(nextId, ops[i].email, ops[i].description, ops[i].amount,
                     ops[i].category, now)}
          /\ nextId' = nextId + 1
          /\ ops' = [ops EXCEPT ![i] = [@ EXCEPT !.pc = "responded", !.id = nextId,
                                                !.matched = 1]]
       \/ /\ ops[i].mode = "update"
          /\ expenseRows' =
                {IF r.id = ops[i].id
                 THEN [r EXCEPT !.description = ops[i].description,
                                !.amount = ops[i].amount, !.category = ops[i].category]
                 ELSE r : r \in expenseRows}
          /\ ops' = [ops EXCEPT ![i] = [@ EXCEPT !.pc = "responded",
                         !.matched = Cardinality({r \in expenseRows : r.id = ops[i].id})]]
          /\ UNCHANGED nextId
       \/ \E err \in TableErrors :
             /\ ops' = [ops EXCEPT ![i] = [@ EXCEPT !.pc = "responded", !.error = err]]
             /\ UNCHANGED <<expenseRows, nextId>>
    /\ UNCHANGED <<backend, serverVars, screenVars, expenses, derived, csv, dash, now,
                   storeUser, route, todoRows, todo>>

\* a fetchExpenses() a handler awaits, with the handler's state
AwaitedFetch(op) == [awaitedBy |-> op.kind] @@ FetchExpensesOp(op.closure, now)

\* the handler of op has nothing left to await
FetchReturned(op) == \A j \in 1..Len(ops) : Awaited(ops[j]) => ops[j].awaitedBy # op.kind

\* the failed request is sent again
Resend(o, i) == [o EXCEPT ![i] = [@ EXCEPT !.pc = "mutate", !.error = ""]]

\* the handler of a failed request returns: nothing of it stays in flight
Settle(o, i) == Remove(o, i)

\* AfterSaveError that also empties the form
AfterSaveErrorResetting(d, op) ==
    [d EXCEPT !.formLoading = FALSE, !.notice = op.error, !.description = <<>>,
              !.amount = NoValue]

\* the error branch of the form's request: console.error, for the button
\* also the alert with error.message and, in finally, setFormLoading(false)
AfterSaveError(d, op) ==
    [d EXCEPT !.formLoading = IF op.via = "button" THEN FALSE ELSE @,
              !.notice = IF op.via = "button" THEN op.error ELSE @]

\* after the await of the form's request: the error branch; or the form is
\* emptied, editingId reset and fetchExpenses awaited
SaveResume(i) ==
    /\ ops[i].kind = "saveExpense" /\ ops[i].pc = "responded"
    /\ IF ops[i].error # ""
       THEN /\ dash' = AfterSaveError(dash, ops[i])
            /\ ops' = Settle(ops, i)
       ELSE /\ dash' = [dash EXCEPT !.description = <<>>, !.amount = NoValue,
                                    !.category = "Other", !.loading = TRUE,
                                    !.editingId = IF ops[i].mode = "update" THEN NoRow ELSE @]
            /\ ops' = Append([ops EXCEPT ![i] = [@ EXCEPT !.pc = "refetch"]],
                             AwaitedFetch(ops[i]))
    /\ DashFrame /\ UNCHANGED <<expenses, expenseRows>>

\* after the awaited fetchExpenses: the success alert, setFormLoading(false)
SaveFinish(i) ==
    /\ ops[i].kind = "saveExpense" /\ ops[i].pc = "refetch"
    /\ FetchReturned(ops[i])
    /\ dash' = [dash EXCEPT
                   !.formLoading = IF ops[i].via = "button" THEN FALSE ELSE @,
                   !.notice = IF ops[i].mode = "update" THEN "Expense updated"
                              ELSE "Expense added!"]
    /\ ops' = Remove(ops, i)
    /\ DashFrame /\ UNCHANGED <<expenses, expenseRows>>

\* handleDeleteExpense up to its dialog
HandleDeleteExpense ==
    /\ OnDashboard /\ ~DashDialogOpen /\ Typing
    /\ \E k \in 1..Len(expenses) :
          /\ expenses[k].id # dash.deletingId
          /\ dash' = [dash EXCEPT !.deleteConfirm = expenses[k].id]
    /\ DashFrame /\ UNCHANGED <<expenses, expenseRows, ops>>

\* if (!confirmResult.isConfirmed) return
DeleteCancel ==
    /\ dash.deleteConfirm # NoRow
    /\ dash' = [dash EXCEPT !.deleteConfirm = NoRow]
    /\ DashFrame /\ UNCHANGED <<expenses, expenseRows, ops>>

\* "Yes, delete it": setDeletingId(id) and the delete by id is sent
DeleteConfirm ==
    /\ dash.deleteConfirm # NoRow
    /\ \A i \in 1..Len(ops) : ops[i].kind # "deleteExpense"
    /\ dash' = [dash EXCEPT !.deleteConfirm = NoRow, !.deletingId = dash.deleteConfirm]
    /\ ops' = Append(ops, [kind |-> "deleteExpense", pc |-> "mutate",
                           id |-> dash.deleteConfirm, closure |-> FetchArgs(dash),
                           error |-> ""])
    /\ DashFrame /\ UNCHANGED <<expenses, expenseRows>>

\* await ...delete().eq("id", id)
DeleteStep(i) ==
    /\ ops[i].kind = "deleteExpense" /\ ops[i].pc = "mutate"
    /\ \/ /\ expenseRows' = {r \in expenseRows : r.id # ops[i].id}
          /\ ops' = [ops EXCEPT ![i] = [@ EXCEPT !.pc = "responded"]]
       \/ \E err \in TableErrors :
             /\ ops' = [ops EXCEPT ![i] = [@ EXCEPT !.pc = "responded", !.error = err]]
             /\ UNCHANGED expenseRows
    /\ DashFrame /\ UNCHANGED <<expenses, dash>>

\* handleDeleteExpense after the delete: the error alert and
\* setDeletingId(null), or fetchExpenses awaited
DeleteResume(i) ==
    /\ ops[i].kind = "deleteExpense" /\ ops[i].pc = "responded"
    /\ IF ops[i].error # ""
       THEN /\ dash' = [dash EXCEPT !.deletingId = NoRow,
                                    !.notice = "Failed to delete expense. Try again."]
            /\ ops' = Settle(ops, i)
       ELSE /\ dash' = [dash EXCEPT !.loading = TRUE]
            /\ ops' = Append([ops EXCEPT ![i] = [@ EXCEPT !.pc = "refetch"]],
                             AwaitedFetch(ops[i]))
    /\ DashFrame /\ UNCHANGED <<expenses, expenseRows>>

\* after the awaited fetchExpenses: "Expense deleted", setDeletingId(null)
DeleteFinish(i) ==
    /\ ops[i].kind = "deleteExpense" /\ ops[i].pc = "refetch"
    /\ FetchReturned(ops[i])
    /\ dash' = [dash EXCEPT !.deletingId = NoRow, !.notice = "Expense deleted"]
    /\ ops' = Remove(ops, i)
    /\ DashFrame /\ UNCHANGED <<expenses, expenseRows>>

TodoRow(id, email, task, created) ==
    [id |-> id, email |-> email, task |-> task, done |-> FALSE, created_at |-> created]

TodoFrame ==
    UNCHANGED <<backend, serverVars, screenVars, expenses, derived, csv, expenseRows, dash,
                now, storeUser, route, nextId>>

\* TodoList getUser / onAuthStateChange: setUserEmail, and the effect on
\* [userEmail] calls fetchTodos when an email is known
TodoSetUserEmail ==
    /\ OnTodos
    /\ InFlight("fetchTodos") < MaxFetches
    /\ \E e \in {NULL, <<"a">>, <<"b">>} :
          /\ e # todo.userEmail
          /\ IF e = NULL
             THEN /\ todo' = [todo EXCEPT !.userEmail = e]
                  /\ UNCHANGED ops
             ELSE /\ todo' = [todo EXCEPT !.userEmail = e, !.loading = TRUE]
                  /\ ops' = Append(ops, [kind |-> "fetchTodos", pc |-> "query", email |-> e,
                                         data |-> <<>>, error |-> ""])
    /\ TodoFrame /\ UNCHANGED todoRows

\* await ...select("*").eq("email", userEmail).order("created_at", desc)
TodoQueryStep(i) ==
    /\ ops[i].kind = "fetchTodos" /\ ops[i].pc = "query"
    /\ \/ ops' = [ops EXCEPT ![i] = [@ EXCEPT !.pc = "responded",
                       !.data = OrderDesc({r \in todoRows : r.email = ops[i].email})]]
       \/ \E err \in TableErrors :
             ops' = [ops EXCEPT ![i] = [@ EXCEPT !.pc = "responded", !.error = err]]
    /\ TodoFrame /\ UNCHANGED <<todoRows, todo>>

\* fetchTodos after its await
FetchTodosResume(i) ==
    /\ ops[i].kind = "fetchTodos" /\ ops[i].pc = "responded"
    /\ todo' = [todo EXCEPT !.todos = IF ops[i].error # "" THEN <<>> ELSE ops[i].data,
                            !.loading = FALSE]
    /\ ops' = Remove(ops, i)
    /\ TodoFrame /\ UNCHANGED todoRows

\* clearAll up to its dialog: returns at once without userEmail
ClearAll ==
    /\ OnTodos /\ ~TodoDialogOpen /\ Typing
    /\ todo.userEmail # NULL
    /\ ~todo.confirm.open
    /\ InFlight("clearTodos") < MaxFetches
    /\ todo' = [todo EXCEPT !.confirm = [open |-> TRUE, email |-> todo.userEmail]]
    /\ TodoFrame /\ UNCHANGED <<todoRows, ops>>

\* the dialog is dismissed: if (!res.isConfirmed) return
ClearAllCancel ==
    /\ todo.confirm.open
    /\ todo' = [todo EXCEPT !.confirm = InitialTodo.confirm]
    /\ TodoFrame /\ UNCHANGED <<todoRows, ops>>

\* "Yes, clear all": setLoading(true) and the delete is sent
ClearAllConfirm ==
    /\ todo.confirm.open
    /\ todo' = [todo EXCEPT !.confirm = InitialTodo.confirm, !.loading = TRUE]
    /\ ops' = Append(ops, ClearRequest("clearTodos", todo.confirm))
    /\ TodoFrame /\ UNCHANGED todoRows

\* await supabase.from("expenses_todos").delete().eq("email", userEmail)
ClearAllDeleteStep(i) ==
    /\ ops[i].kind = "clearTodos" /\ ops[i].pc = "delete"
    /\ \/ /\ todoRows' = DeleteRows(todoRows, ops[i])
          /\ ops' = [ops EXCEPT ![i] = [@ EXCEPT !.pc = "responded"]]
       \/ \E err \in TableErrors :
             /\ ops' = [ops EXCEPT ![i] = [@ EXCEPT !.pc = "responded", !.error = err]]
             /\ UNCHANGED todoRows
    /\ TodoFrame /\ UNCHANGED todo

\* clearAll after the delete: setTodos([]) and "Cleared", or the error alert
ClearAllResume(i) ==
    /\ ops[i].kind = "clearTodos" /\ ops[i].pc = "responded"
    /\ todo' = IF ops[i].error # ""
               THEN [todo EXCEPT !.loading = FALSE, !.notice = "Could not clear tasks."]
               ELSE [todo EXCEPT !.todos = <<>>, !.loading = FALSE, !.notice = "Cleared"]
    /\ ops' = Remove(ops, i)
    /\ TodoFrame /\ UNCHANGED todoRows

-----------------------------------------------------------------------------
(* The TodoList's mutations: add, toggle, edit and delete *)

Tasks == {<<>>, <<" ">>, <<"u", " ">>}

\* onChange of the new task input
SetNewTask ==
    /\ OnTodos /\ ~TodoDialogOpen /\ Typing
    /\ \E v \in Tasks :
          /\ v # todo.newTask
          /\ todo' = [todo EXCEPT !.newTask = v]
    /\ TodoFrame /\ UNCHANGED <<todoRows, ops>>

\* a request of the TodoList for one task
TodoRequest(what, id, task, done) ==
    [kind |-> "todoOp", what |-> what, pc |-> "mutate", id |-> id,
     email |-> todo.userEmail, task |-> task, done |-> done, error |-> ""]

TodoOps(o) == {i \in 1..Len(o) : o[i].kind = "todoOp"}

\* TaskEmpty on the text as typed
TaskEmptyUntrimmed(text) == text = <<>>

\* const trimmed = newTask.trim(); if (!trimmed) return
TaskEmpty(text) == trim(text) = <<>>

\* addTodo (the form's submit, its button disabled by adding) up to its
\* await: a warning without userEmail, nothing for an empty trimmed text
AddTodo ==
    /\ OnTodos /\ ~TodoDialogOpen
    /\ ~todo.adding
    /\ Cardinality(TodoOps(ops)) < MaxTodoOps /\ nextId < FirstId + MaxInserts
    /\ IF todo.userEmail = NULL
       THEN /\ todo' = [todo EXCEPT !.notice = "Not signed in"]
            /\ UNCHANGED ops
       ELSE IF TaskEmpty(todo.newTask)
       THEN UNCHANGED <<todo, ops>>
       ELSE /\ todo' = [todo EXCEPT !.adding = TRUE]
            /\ ops' = Append(ops, TodoRequest("add", NoRow, trim(todo.newTask), FALSE))
    /\ TodoFrame /\ UNCHANGED todoRows

\* toggleDone(t.id, t.done): the checkbox is disabled by opLoadingId
ToggleDone ==
    /\ OnTodos /\ ~TodoDialogOpen
    /\ Cardinality(TodoOps(ops)) < MaxTodoOps
    /\ \E k \in 1..Len(todo.todos) :
          /\ todo.todos[k].id # todo.opLoadingId
          /\ todo' = [todo EXCEPT !.opLoadingId = todo.todos[k].id]
          /\ ops' = Append(ops, TodoRequest("toggle", todo.todos[k].id,
                                            todo.todos[k].task, ~todo.todos[k].done))
    /\ TodoFrame /\ UNCHANGED todoRows

\* startEdit
StartEdit ==
    /\ OnTodos /\ ~TodoDialogOpen /\ Typing
    /\ \E k \in 1..Len(todo.todos) :
          /\ todo.todos[k].id # todo.editingId
          /\ todo' = [todo EXCEPT !.editingId = todo.todos[k].id,
                                  !.editingText = todo.todos[k].task]
    /\ TodoFrame /\ UNCHANGED <<todoRows, ops>>

\* onChange of the edit input
SetEditingText ==
    /\ OnTodos /\ ~TodoDialogOpen /\ Typing
    /\ todo.editingId # NoRow
    /\ \E v \in Tasks :
          /\ v # todo.editingText
          /\ todo' = [todo EXCEPT !.editingText = v]
    /\ TodoFrame /\ UNCHANGED <<todoRows, ops>>

\* the Cancel button or Escape
CancelEdit ==
    /\ OnTodos /\ ~TodoDialogOpen /\ Typing
    /\ todo.editingId # NoRow
    /\ todo' = [todo EXCEPT !.editingId = NoRow, !.editingText = <<>>]
    /\ TodoFrame /\ UNCHANGED <<todoRows, ops>>

\* saveEdit (Save, disabled by opLoadingId, or Enter) up to its await
SaveEdit ==
    /\ OnTodos /\ ~TodoDialogOpen
    /\ todo.editingId # NoRow
    /\ Cardinality(TodoOps(ops)) < MaxTodoOps
    /\ IF TaskEmpty(todo.editingText)
       THEN /\ todo' = [todo EXCEPT !.notice = "Task is empty"]
            /\ UNCHANGED ops
       ELSE /\ todo' = [todo EXCEPT !.opLoadingId = todo.editingId]
            /\ ops' = Append(ops, TodoRequest("edit", todo.editingId,
                                              trim(todo.editingText), FALSE))
    /\ TodoFrame /\ UNCHANGED todoRows

\* deleteTodo up to its dialog: the Delete button of a row that is not being
\* edited and has no request in flight
DeleteTodo ==
    /\ OnTodos /\ ~TodoDialogOpen /\ Typing
    /\ \E k \in 1..Len(todo.todos) :
          /\ todo.todos[k].id # todo.opLoadingId
          /\ todo.todos[k].id # todo.editingId
          /\ todo' = [todo EXCEPT !.deleteConfirm = todo.todos[k].id]
    /\ TodoFrame /\ UNCHANGED <<todoRows, ops>>

DeleteTodoCancel ==
    /\ todo.deleteConfirm # NoRow
    /\ todo' = [todo EXCEPT !.deleteConfirm = NoRow]
    /\ TodoFrame /\ UNCHANGED <<todoRows, ops>>

DeleteTodoConfirm ==
    /\ todo.deleteConfirm # NoRow
    /\ Cardinality(TodoOps(ops)) < MaxTodoOps
    /\ todo' = [todo EXCEPT !.deleteConfirm = NoRow, !.opLoadingId = todo.deleteConfirm]
    /\ ops' = Append(ops, TodoRequest("delete", todo.deleteConfirm, <<>>, FALSE))
    /\ TodoFrame /\ UNCHANGED todoRows

\* the table expenses_todos after the request of op
TodoTable(rows, op, id, clock) ==
    CASE op.what = "add" ->
            rows \cup {[TodoRow(id, op.email, op.task, clock) EXCEPT !.done = op.done]}
      [] op.what = "toggle" ->
            {IF r.id = op.id THEN [r EXCEPT !.done = op.done] ELSE r : r \in rows}
      [] op.what = "edit" ->
            {IF r.id = op.id THEN [r EXCEPT !.task = op.task] ELSE r : r \in rows}
      [] OTHER -> {r \in rows : r.id # op.id}

\* the table takes the request
TodoStep(i) ==
    /\ ops[i].kind = "todoOp" /\ ops[i].pc = "mutate"
    /\ \/ /\ todoRows' = TodoTable(todoRows, ops[i], nextId, now)
          /\ nextId' = IF ops[i].what = "add" THEN nextId + 1 ELSE nextId
          /\ ops' = [ops EXCEPT ![i] = [@ EXCEPT !.pc = "responded"]]
       \/ \E err \in TableErrors :
             /\ ops' = [ops EXCEPT ![i] = [@ EXCEPT !.pc = "responded", !.error = err]]
             /\ UNCHANGED <<todoRows, nextId>>
    /\ UNCHANGED <<backend, serverVars, screenVars, expenses, derived, csv, expenseRows, dash,
                   now, storeUser, route, todo>>

\* setTodos((t) => ...): the list after the mutation is applied to it
RECURSIVE ApplyLocally(_, _)
ApplyLocally(list, op) ==
    IF list = <<>> THEN <<>>
    ELSE LET x    == Head(list)
             rest == ApplyLocally(Tail(list), op)
         IN  IF x.id # op.id THEN <<x>> \o rest
             ELSE IF op.what = "toggle" THEN <<[x EXCEPT !.done = op.done]>> \o rest
             ELSE IF op.what = "edit" THEN <<[x EXCEPT !.task = op.task]>> \o rest
             ELSE rest

\* after the await of a TodoList request: the catch block (an alert, for
\* toggleDone the log only), or the success path; finally resets the flag
TodoResume(i) ==
    /\ ops[i].kind = "todoOp" /\ ops[i].pc = "responded"
    /\ LET op == ops[i]
       IN  IF op.error # ""
           THEN /\ todo' =
                     IF op.what = "add"
                     THEN [todo EXCEPT !.adding = FALSE, !.notice = "Could not add todo."]
                     ELSE IF op.what = "toggle" THEN [todo EXCEPT !.opLoadingId = NoRow]
                     ELSE [todo EXCEPT !.opLoadingId = NoRow,
                                       !.notice = IF op.what = "edit"
                                                  THEN "Could not save changes."
                                                  ELSE "Could not delete task."]
                /\ ops' = Settle(ops, i)
           ELSE IF op.what = "add"
           THEN /\ todo' = [todo EXCEPT !.newTask = <<>>, !.loading = TRUE]
                /\ ops' = Append([ops EXCEPT ![i] = [@ EXCEPT !.pc = "refetch"]],
                                 [awaitedBy |-> "todoOp", kind |-> "fetchTodos",
                                  pc |-> "query", email |-> op.email, data |-> <<>>,
                                  error |-> ""])
           ELSE /\ todo' = [todo EXCEPT
                               !.todos = ApplyLocally(@, op),
                               !.opLoadingId = NoRow,
                               !.editingId = IF op.what = "edit" THEN NoRow ELSE @,
                               !.editingText = IF op.what = "edit" THEN <<>> ELSE @]
                /\ ops' = Remove(ops, i)
    /\ TodoFrame /\ UNCHANGED todoRows

\* addTodo after the awaited fetchTodos: setAdding(false)
AddTodoFinish(i) ==
    /\ ops[i].kind = "todoOp" /\ ops[i].pc = "refetch"
    /\ FetchReturned(ops[i])
    /\ todo' = [todo EXCEPT !.adding = FALSE]
    /\ ops' = Remove(ops, i)
    /\ TodoFrame /\ UNCHANGED todoRows


RECURSIVE SeqsUpTo(_, _)
SeqsUpTo(S, n) ==
    IF n = 0 THEN {<<>>}
    ELSE LET shorter == SeqsUpTo(S, n - 1)
         IN  shorter \cup {Append(q, x) : q \in shorter, x \in S}

\* the first render, and the render after setExpenses(results): every memo
\* is recomputed
Render ==
    /\ ~derived.rendered \/ derived.deps # expenses
    /\ derived' = Derive(expenses)
    /\ UNCHANGED <<backend, serverVars, ops, screenVars, expenses, csv, fetchVars>>

-----------------------------------------------------------------------------
(* Initial states *)

Identity(id, email, emailConfirmed, confirmed) ==
    [id |-> id, email |-> email, email_confirmed_at |-> emailConfirmed,
     confirmed_at |-> confirmed]

\* the identity records the provider may hold: the administrator's account
\* u1 and one other account u2, confirmed or not
AuthUniverse ==
    {Identity("u1", AdminEmail, t[1], t[2]) :
        t \in {<<NullTime, NullTime>>, <<1, 1>>, <<NullTime, 1>>}}
    \cup {Identity("u2", <<"b">>, NullTime, NullTime), Identity("u2", <<"b">>, 1, 1),
          Identity("u2", NULL, 1, 1)}

Profile(id, email, created) ==
    [id |-> id, email |-> email, created_at |-> created, budget |-> NoValue]

\* the rows expenses_profiles may hold: u3 has no identity of its own and
\* can only match one by email
ProfileUniverse ==
    {Profile("u1", AdminEmail, 1)}
    \cup {Profile("u2", <<"b">>, 2)}
    \cup {Profile("u3", <<"a">>, NullTime), Profile("u3", <<"a">>, 3),
          Profile("u3", NULL, 3)}

UniqueIds(S) == \A x, y \in S : x.id = y.id => x = y

\* a table's rows in storage order: by id
RECURSIVE RowsOf(_)
RowsOf(S) ==
    IF S = {} THEN <<>>
    ELSE LET first == CHOOSE x \in S : \A y \in S : x.id = y.id \/ IdLess(x.id, y.id)
         IN  <<first>> \o RowsOf(S \ {first})

InitServer ==
    /\ backend \in {"vercel", "deno"}
    /\ authUsers \in {S \in SUBSET AuthUniverse : UniqueIds(S)}
    /\ profiles \in {RowsOf(S) : S \in {T \in SUBSET ProfileUniverse : UniqueIds(T)}}
    /\ ops = <<>>

InitAdmin ==
    /\ session \in {NoSession} \cup {SessionOf(a) : a \in {b \in authUsers : IsString(b.email)}}
    /\ isLoggedIn = FALSE
    /\ users = <<>>
    /\ loading = FALSE
    /\ alert = NoAlert
    /\ mounted = FALSE

\* the app just loaded: nobody in the store, the sign-in page shown
InitApp ==
    /\ storeUser = NULL
    /\ route = "/"
    /\ todoRows = {}
    /\ todo = InitialTodo
    /\ nextId = FirstId

\* a signed-in user has a protected page open
InitPage(path) ==
    /\ storeUser = [email |-> <<"a">>]
    /\ route = path
    /\ todoRows = {}
    /\ todo = InitialTodo
    /\ nextId = FirstId

\* the Dashboard just mounted, the table is empty
InitFetch ==
    /\ expenseRows = {}
    /\ dash = InitialDash
    /\ now = Clock
    /\ InitPage("/dashboard")

InitDash ==
    /\ expenses = <<>>
    /\ derived = NotRendered
    /\ csv = NoDownload
    /\ InitFetch

Init == InitServer /\ InitAdmin /\ InitDash

-----------------------------------------------------------------------------
(* Specifications *)

ServerStep(i) ==
    \/ DeleteUserHandler(i)
    \/ DeleteUserAuthStep(i)
    \/ DeleteUserTableStep(i)
    \/ ListUsersHandler(i)
    \/ ListUsersAuthStep(i)
    \/ ListUsersTableStep(i)

\* the Admin screen and the endpoints it calls
Next ==
    \/ CheckAdminSession
    \/ HandleAdminLogin
    \/ HandleDelete
    \/ HandleLogout
    \/ SessionEnds
    \/ \E i \in 1..Len(ops) :
          \/ ServerStep(i)
          \/ FetchUsersResume(i)
          \/ HandleDeleteCancel(i)
          \/ HandleDeleteConfirm(i)
          \/ HandleDeleteResume(i)

Spec == Init /\ [][Next]_vars

\* the endpoints under requests from anywhere
InitEndpoints ==
    /\ InitServer
    /\ session = NoSession
    /\ isLoggedIn = FALSE
    /\ users = <<>>
    /\ loading = FALSE
    /\ alert = NoAlert
    /\ mounted = FALSE
    /\ InitDash

NextEndpoints ==
    \/ OutsideRequest
    \/ \E i \in 1..Len(ops) :
          \/ ServerStep(i)
          \/ OutsideReceive(i)

SpecEndpoints == InitEndpoints /\ [][NextEndpoints]_vars

\* rows around the edges of the days, weeks and months of the clock
\* readings, of two owners
RowUniverse ==
    { Row(1, <<"a">>, <<"F", "a">>, 300, "Food", Instant(2024, 3, 5, 0)),
      Row(2, <<"a">>, <<"x">>, 1200, "Transport", Instant(2024, 3, 4, LastMs)),
      Row(3, <<"a">>, <<"x">>, 1, "Other", Instant(2024, 3, 5, LastMs)),
      Row(4, <<"a">>, <<"b", "3">>, 500, "Other", Instant(2024, 2, 27, 43200000)),
      Row(5, <<"a">>, <<"x">>, 500, "Transport", Instant(2024, 2, 27, 43199999)),
      Row(6, <<"a">>, <<"x">>, 1, "Transport", Instant(2024, 3, 1, 0)),
      Row(7, <<"a">>, <<"x">>, 1, "Other", Instant(2024, 2, 29, LastMs)),
      Row(8, <<"a">>, <<"x">>, 1, "Transport", Instant(2024, 3, 6, 0)),
      Row(9, <<"b">>, <<"F", "a">>, 300, "Food", Instant(2024, 3, 5, 43200000)),
      Row(10, <<"a">>, <<"x">>, 1, "Transport", Instant(2023, 12, 27, 43200000)),
      Row(11, <<"a">>, <<"x">>, 1, "Transport", Instant(2023, 12, 27, 43199999)),
      Row(12, <<"a">>, <<"x">>, 1, "Other", Instant(2024, 1, 1, 0)),
      Row(13, <<"b">>, <<"x">>, 1, "Other", Instant(2023, 12, 31, LastMs)) }

\* the Dashboard's list under every choice of filters
InitDashboard ==
    /\ backend = "vercel"
    /\ authUsers = {}
    /\ profiles = <<>>
    /\ ops = <<>>
    /\ InitAdmin
    /\ expenses = <<>>
    /\ derived = NotRendered
    /\ csv = NoDownload
    /\ expenseRows \in {{}, RowUniverse}
    /\ dash = InitialDash
    /\ now \in Clocks
    /\ InitPage("/dashboard")

NextDashboard ==
    \/ SetEmail
    \/ SetFilter
    \/ SetStartDate
    \/ SetEndDate
    \/ SetSearchTerm
    \/ \E i \in 1..Len(ops) :
          \/ QueryStep(i)
          \/ FetchExpensesResume(i)
          \/ BudgetQueryStep(i)
          \/ FetchBudgetResume(i)

SpecDashboard == InitDashboard /\ [][NextDashboard]_vars

\* sign-in, the protected pages and the three sign-outs
InitAuth ==
    /\ backend \in {"vercel", "deno"}
    /\ authUsers = {Identity("u1", AdminEmail, 1, 1), Identity("u2", <<"b">>, 1, 1),
                    Identity("u3", <<"c">>, NullTime, NullTime)}
    /\ profiles \in {<<>>, <<Profile("u2", <<"b">>, 2)>>}
    /\ ops = <<>>
    /\ session = NoSession
    /\ isLoggedIn = FALSE
    /\ users = <<>>
    /\ loading = FALSE
    /\ alert = NoAlert
    /\ mounted = FALSE
    /\ expenses = <<>>
    /\ derived = NotRendered
    /\ csv = NoDownload
    /\ expenseRows = {}
    /\ dash = InitialDash
    /\ now = Clock
    /\ InitApp

NextAuth ==
    \/ Navigate
    \/ SignIn
    \/ DashboardLogout
    \/ TodoLogout
    \/ CheckAdminSession
    \/ HandleAdminLogin
    \/ HandleLogout
    \/ \E i \in 1..Len(ops) :
          \/ ListUsersAuthStep(i)
          \/ ListUsersTableStep(i)
          \/ FetchUsersResume(i)

SpecAuth == InitAuth /\ [][NextAuth]_vars

\* the rows of two owners in both tables
ClearExpenseRows ==
    { Row(1, <<"a">>, <<"x">>, 300, "Food", Instant(2024, 3, 5, 0)),
      Row(2, <<"a">>, <<"x">>, 1, "Other", Instant(2024, 3, 4, 0)),
      Row(3, <<"b">>, <<"x">>, 300, "Food", Instant(2024, 3, 5, 0)) }

ClearTodoRows ==
    { TodoRow(1, <<"a">>, <<"x">>, Instant(2024, 3, 5, 0)),
      TodoRow(2, <<"b">>, <<"x">>, Instant(2024, 3, 4, 0)),
      TodoRow(3, <<"b">>, <<"y">>, Instant(2024, 3, 5, 0)) }

InitClear ==
    /\ backend = "vercel"
    /\ authUsers = {}
    /\ profiles = <<>>
    /\ ops = <<>>
    /\ InitAdmin
    /\ expenses = <<>>
    /\ derived = NotRendered
    /\ csv = NoDownload
    /\ expenseRows \in {ClearExpenseRows, {r \in ClearExpenseRows : r.email = <<"b">>}}
    /\ dash = InitialDash
    /\ now = Clock
    /\ storeUser = [email |-> <<"a">>]
    /\ route \in Protected
    /\ todoRows \in {ClearTodoRows, {r \in ClearTodoRows : r.email = <<"a">>}}
    /\ todo = InitialTodo
    /\ nextId = FirstId

NextClear ==
    \/ SetEmail
    \/ HandleClearExpenses
    \/ ClearCancel
    \/ ClearConfirm
    \/ TodoSetUserEmail
    \/ ClearAll
    \/ ClearAllCancel
    \/ ClearAllConfirm
    \/ \E i \in 1..Len(ops) :
          \/ QueryStep(i)
          \/ FetchExpensesResume(i)
          \/ BudgetQueryStep(i)
          \/ FetchBudgetResume(i)
          \/ ClearDeleteStep(i)
          \/ ClearResume(i)
          \/ ClearFinish(i)
          \/ TodoQueryStep(i)
          \/ FetchTodosResume(i)
          \/ ClearAllDeleteStep(i)
          \/ ClearAllResume(i)

SpecClear == InitClear /\ [][NextClear]_vars


\* one owner's rows of today, of this week and of last year
RaceRows ==
    { Row(1, <<"a">>, <<"x">>, 300, "Food", Instant(2024, 3, 5, 0)),
      Row(2, <<"a">>, <<"x">>, 1, "Other", Instant(2024, 3, 1, 0)),
      Row(3, <<"a">>, <<"x">>, 1, "Other", Instant(2023, 3, 1, 0)) }

\* the Dashboard with filter changes that overlap their fetches
InitRace ==
    /\ backend = "vercel"
    /\ authUsers = {}
    /\ profiles = <<>>
    /\ ops = <<>>
    /\ InitAdmin
    /\ expenses = <<>>
    /\ derived = NotRendered
    /\ csv = NoDownload
    /\ expenseRows = RaceRows
    /\ dash = InitialDash
    /\ now = Clock
    /\ InitPage("/dashboard")

NextRace ==
    \/ SetEmail
    \/ SetFilterAgain
    \/ \E i \in 1..Len(ops) :
          \/ QueryStep(i)
          \/ FetchExpensesResume(i)
          \/ BudgetQueryStep(i)
          \/ FetchBudgetResume(i)

SpecRace == InitRace /\ [][NextRace]_vars

\* the rows of two owners when a page is opened
MutationExpenseRows ==
    { Row(1, <<"a">>, <<"x">>, 5, "Food", Instant(2024, 3, 5, 0)),
      Row(2, <<"b">>, <<"x">>, 5, "Food", Instant(2024, 3, 4, 0)) }

MutationTodoRows ==
    { TodoRow(3, <<"a">>, <<"t">>, Instant(2024, 3, 5, 0)),
      TodoRow(4, <<"b">>, <<"t">>, Instant(2024, 3, 4, 0)) }

\* the Dashboard or the TodoList is open; the Dashboard has loaded the
\* list of its user, or does not know its user yet
InitMutations ==
    /\ backend = "vercel"
    /\ authUsers = {}
    /\ profiles = <<>>
    /\ ops = <<>>
    /\ InitAdmin
    /\ derived = NotRendered
    /\ csv = NoDownload
    /\ expenseRows = MutationExpenseRows
    /\ \E e \in {NULL, <<"a">>} :
          /\ dash = [InitialDash EXCEPT !.email = e]
          /\ expenses = OrderDesc({r \in expenseRows : r.email = e})
    /\ now = Clock
    /\ storeUser = [email |-> <<"a">>]
    /\ route \in Protected
    /\ todoRows = MutationTodoRows
    /\ \E e \in {NULL, <<"a">>} :
          todo = [InitialTodo EXCEPT !.userEmail = e,
                                     !.todos = OrderDesc({r \in todoRows : r.email = e})]
    /\ nextId = FirstId

NextMutations ==
    \/ SetDescription
    \/ SetAmount
    \/ HandleEditExpense
    \/ HandleCancelEdit
    \/ HandleAddOrSave
    \/ HandleAddExpense
    \/ HandleDeleteExpense
    \/ DeleteCancel
    \/ DeleteConfirm
    \/ HandleClearExpenses
    \/ ClearCancel
    \/ ClearConfirm
    \/ SetNewTask
    \/ AddTodo
    \/ ToggleDone
    \/ StartEdit
    \/ SetEditingText
    \/ CancelEdit
    \/ SaveEdit
    \/ DeleteTodo
    \/ DeleteTodoCancel
    \/ DeleteTodoConfirm
    \/ ClearAll
    \/ ClearAllCancel
    \/ ClearAllConfirm
    \/ \E i \in 1..Len(ops) :
          \/ QueryStep(i)
          \/ FetchExpensesResume(i)
          \/ SaveStep(i)
          \/ SaveResume(i)
          \/ SaveFinish(i)
          \/ DeleteStep(i)
          \/ DeleteResume(i)
          \/ DeleteFinish(i)
          \/ ClearDeleteStep(i)
          \/ ClearResume(i)
          \/ ClearFinish(i)
          \/ TodoStep(i)
          \/ TodoResume(i)
          \/ AddTodoFinish(i)
          \/ TodoQueryStep(i)
          \/ FetchTodosResume(i)
          \/ ClearAllDeleteStep(i)
          \/ ClearAllResume(i)

SpecMutations == InitMutations /\ [][NextMutations]_vars

WithBudget(p, b) == [p EXCEPT !.budget = b]

\* the Dashboard's budget over tables with and without a row of the owner
InitBudget ==
    /\ backend = "vercel"
    /\ authUsers = {}
    /\ profiles \in {<<>>,
                      <<Profile("u3", <<"a">>, 3)>>,
                      <<WithBudget(Profile("u3", <<"a">>, 3), Value(100))>>,
                      <<Profile("u2", <<"b">>, 2)>>,
                      <<WithBudget(Profile("u2", <<"b">>, 2), Value(200)), Profile("u3", <<"a">>, 3)>>}
    /\ ops = <<>>
    /\ InitAdmin
    /\ InitDash

NextBudget ==
    \/ SetEmail
    \/ SetBudget
    \/ HandleSaveBudget
    \/ \E i \in 1..Len(ops) :
          \/ QueryStep(i)
          \/ FetchExpensesResume(i)
          \/ BudgetQueryStep(i)
          \/ FetchBudgetResume(i)
          \/ SaveBudgetStep(i)
          \/ SaveBudgetResume(i)

SpecBudget == InitBudget /\ [][NextBudget]_vars

\* the characters a description is typed from
DescriptionChars == {"a", "\"", ",", "#", "\n"}

Descriptions ==
    {<<c>> : c \in DescriptionChars} \cup {<<c, d>> : c \in DescriptionChars, d \in DescriptionChars}

\* rows that differ in their description only
ExportExpense ==
    {Row(0, <<"a">>, d, 300, "Food", Instant(2024, 1, 15, 0)) : d \in Descriptions}

\* the Dashboard's CSV export over every expense list
InitExport ==
    /\ backend = "vercel"
    /\ authUsers = {}
    /\ profiles = <<>>
    /\ ops = <<>>
    /\ InitAdmin
    /\ expenses \in {WithIds(q) : q \in SeqsUpTo(ExportExpense, MaxExpenses)}
    /\ derived = NotRendered
    /\ csv = NoDownload
    /\ InitFetch

NextExport == Render \/ ExportCSV

SpecExport == InitExport /\ [][NextExport]_vars

\* the Dashboard's statistics over every expense list
InitStats ==
    /\ backend = "vercel"
    /\ authUsers = {}
    /\ profiles = <<>>
    /\ ops = <<>>
    /\ session = NoSession
    /\ isLoggedIn = FALSE
    /\ users = <<>>
    /\ loading = FALSE
    /\ alert = NoAlert
    /\ mounted = FALSE
    /\ expenses \in {WithIds(q) : q \in SeqsUpTo(Expense, MaxExpenses)
                                          \cup SeqsUpTo(MonthlyExpense, MaxExpenses)}
    /\ derived = NotRendered
    /\ csv = NoDownload
    /\ InitFetch

NextStats == Render

SpecStats == InitStats /\ [][NextStats]_vars

-----------------------------------------------------------------------------
(* Claims about the delete-user endpoint *)

IsDelete(op) == op.path = "delete-user"

\* C1: the identity deletion is attempted first and the profile deletion
\* only after it succeeded; a request whose identity deletion failed has
\* answered without attempting the profile deletion, and a profile row is
\* removed only by a request for that id whose identity deletion succeeded.
C1_IdentityBeforeProfile ==
    [][/\ \A i \in 1..Len(ops') :
            IsDelete(ops'[i]) =>
               /\ ops'[i].tableTried => ops'[i].authOk
               /\ ops'[i].pc = "tableCall" => ops'[i].authOk
               /\ ops'[i].authFailed => ~ops'[i].tableTried /\ ops'[i].pc = "responded"
       /\ profiles' # profiles =>
            \E i \in 1..Len(ops) :
               /\ IsDelete(ops[i]) /\ ops[i].pc = "tableCall" /\ ops[i].authOk
               /\ \A p \in Range(profiles) \ Range(profiles') : p.id = ops[i].body.id
       /\ authUsers' # authUsers =>
            \E i \in 1..Len(ops) :
               /\ IsDelete(ops[i]) /\ ops[i].pc = "authCall" /\ ~ops[i].tableTried
               /\ \A a \in authUsers \ authUsers' : a.id = ops[i].body.id
      ]_vars

\* C1's case: an identity deletion has failed and the profile row of that id
\* is still there
C1_Witness ==
    \E i \in 1..Len(ops) :
        /\ IsDelete(ops[i]) /\ ops[i].authFailed /\ ops[i].pc = "responded"
        /\ \E p \in Range(profiles) : p.id = ops[i].body.id

DownstreamFailed(op) == op.authFailed \/ (op.tableTried /\ ~op.tableOk)

\* C2: every downstream failure of delete-user is answered HTTP 500 with
\* the body {success: false, error: <the failure's message>}.
C2_DownstreamFailureIs500 ==
    \A i \in 1..Len(ops) :
        IsDelete(ops[i]) /\ ops[i].pc = "responded" /\ DownstreamFailed(ops[i])
            => ops[i].res = Json(500, FALSE, ops[i].thrown)

Rejected(op) == op.method # "POST" \/ op.body.id = NoId

NoCallMade(op) == ~op.authOk /\ ~op.authFailed /\ ~op.tableTried

C4_OnlyAdminDeletes ==
    \A i \in 1..Len(ops) :
        IsDelete(ops[i]) /\ (ops[i].authOk \/ ops[i].tableTried)
            => ops[i].caller = "admin"

-----------------------------------------------------------------------------
(* Claims about the list-users reconciliation *)

IsList(op) == op.path = "list-users"

HasConfirmation(a) == a.email_confirmed_at # NullTime \/ a.confirmed_at # NullTime

CasePairs == {{"a", "A"}, {"b", "B"}, {"c", "C"}}

EqualIgnoringCase(x, y) ==
    /\ x # NULL /\ y # NULL
    /\ Len(x) = Len(y)
    /\ \A k \in 1..Len(x) : x[k] = y[k] \/ {x[k], y[k]} \in CasePairs

ConfirmedMatch(p, a) ==
    HasConfirmation(a) /\ (a.id = p.id \/ EqualIgnoringCase(a.email, p.email))

-----------------------------------------------------------------------------
(* Claims about the Admin screen *)

\* the rows of the table the screen renders: none while the login form or
\* the spinner is shown
Shown == IF isLoggedIn /\ ~loading THEN users ELSE <<>>

\* C6: every profile the screen shows has an identity record that exists
\* now and is confirmed.
C6_ShownHaveConfirmedIdentity ==
    \A u \in Range(Shown) : \E a \in authUsers : ConfirmedMatch(u, a)

\* C7: when the identity fetch or the profile fetch of list-users fails,
\* the endpoint answers success: false with the error's message and without
\* a users list, and the fetchUsers that receives such an answer shows the
\* message and installs no rows.
C7_FailedReconciliationNoRows ==
    [][/\ \A i \in 1..Len(ops') :
            (IsList(ops'[i]) /\ ops'[i].pc = "responded" /\ DownstreamFailed(ops'[i]))
            => /\ ~ops'[i].res.success
               /\ ops'[i].res.hasBody
               /\ ops'[i].res.error = ops'[i].thrown
               /\ ops'[i].res.error \in AuthErrors \cup TableErrors
               /\ ~ops'[i].res.hasUsers /\ ops'[i].res.users = <<>>
       /\ \A i \in 1..Len(ops) :
            (/\ ops[i].kind = "fetchUsers" /\ ops[i].pc = "responded"
             /\ ~ops[i].res.success
             /\ ops' = Remove(ops, i))
            => /\ users' = users \/ users' = <<>>
               /\ alert' = [by |-> "fetchUsers", title |-> "Error",
                            text |-> ops[i].res.error]
      ]_vars

\* C7's case: the profile fetch failed after the identity fetch had
\* succeeded, and the screen has shown the error
C7_Witness ==
    /\ isLoggedIn
    /\ alert.by = "fetchUsers" /\ alert.title = "Error" /\ alert.text \in TableErrors
    /\ ops = <<>>

TimeOrZero(u) == IF u.created_at = NullTime THEN 0 ELSE u.created_at

\* C8: the rows of the Admin screen are in descending order of creation
\* time, a row without one counting as time zero: it comes after every row
\* that has a positive time.
C8_NewestFirst ==
    \A i, j \in 1..Len(users) :
        i < j => /\ TimeOrZero(users[i]) >= TimeOrZero(users[j])
                 /\ ~(users[i].created_at = NullTime /\ users[j].created_at > 0)

\* C8's case: three rows are listed, the newest first and the one without a
\* creation time last
C8_Witness ==
    /\ Len(users) = 3
    /\ users[1].created_at > users[2].created_at
    /\ users[2].created_at > 0
    /\ users[3].created_at = NullTime

-----------------------------------------------------------------------------
(* Claims about the Dashboard's statistics *)

\* the statistics on screen are those of the current expenses
Rendered == derived.rendered /\ derived.deps = expenses

\* the sum of a list of integers, without rounding
RECURSIVE ExactSum(_)
ExactSum(q) == IF q = <<>> THEN 0 ELSE q[1] + ExactSum(Tail(q))

AmountsOf(exps) == [k \in 1..Len(exps) |-> exps[k].amount]

TotalsOf(data) == [k \in 1..Len(data) |-> data[k].total]

\* no addition over these expenses can round: every partial sum is an
\* integer of at most MantissaBits bits
NoRounding(exps) ==
    ExactSum([k \in 1..Len(exps) |-> Abs(exps[k].amount)]) <= Pow2(MantissaBits)

\* every category of an expense is exactly one key of the category totals,
\* and there is no other key
OneKeyPerCategory ==
    /\ \A k \in 1..Len(expenses) :
          Cardinality({j \in 1..Len(derived.categoryData) :
              derived.categoryData[j].category = expenses[k].category}) = 1
    /\ \A j \in 1..Len(derived.categoryData) :
          \E k \in 1..Len(expenses) :
              expenses[k].category = derived.categoryData[j].category

\* C9 as stated: for every list of expenses the category totals add up to
\* the overall total, and every category is exactly one key.
C9_CategoryTotalsSumToTotal ==
    Rendered => /\ derived.totalByCategories = derived.totalAmount
                /\ OneKeyPerCategory

\* C9, amended: every category of an expense is exactly one key of the
\* category totals; each category total and the overall total are the exact
\* sums, and the category totals add up to the overall total, whenever no
\* addition rounds.
C9_PartitionWhenExact ==
    Rendered =>
        /\ OneKeyPerCategory
        /\ NoRounding(expenses) =>
              /\ derived.totalByCategories = derived.totalAmount
              /\ ExactSum(TotalsOf(derived.categoryData)) = ExactSum(AmountsOf(expenses))
              /\ \A j \in 1..Len(derived.categoryData) :
                    derived.categoryData[j].total =
                        ExactSum(AmountsOf(SelectSeq(expenses,
                            LAMBDA e : e.category = derived.categoryData[j].category)))

\* C9's case: three expenses in two categories, one of them holding two,
\* summed without rounding
C9_Witness ==
    /\ Rendered
    /\ Len(expenses) = 3
    /\ expenses[1].category = expenses[3].category
    /\ expenses[1].category # expenses[2].category
    /\ NoRounding(expenses)
    /\ Len(derived.categoryData) = 2
    /\ derived.totalByCategories = derived.totalAmount
    /\ derived.totalAmount # 0

\* the weight of the last kept bit of a quotient's numerator m
Ulp(m) ==
    IF BitLen(Abs(m)) <= MantissaBits THEN 1 ELSE Pow2(BitLen(Abs(m)) - MantissaBits)

ScenarioRow(a, c) == Row(0, <<"a">>, <<"x">>, a, c, Instant(2024, 1, 15, 0))

Scenario ==
    WithIds(<<ScenarioRow(1200, "Food"), ScenarioRow(300, "Food"),
              ScenarioRow(500, "Transport")>>)

ScenarioStats ==
    expenses = Scenario =>
        /\ derived.totalAmount = 2000
        /\ derived.count = 3
        /\ derived.highest = 1200
        /\ derived.categoryData = <<[category |-> "Food", total |-> 1500],
                                    [category |-> "Transport", total |-> 500]>>

HighestIsMaximum ==
    /\ \A k \in 1..Len(expenses) : derived.highest >= expenses[k].amount
    /\ \E k \in 1..Len(expenses) : derived.highest = expenses[k].amount

\* C10 as stated: for every non-empty list the total is the arithmetic sum
\* of the amounts, the count is the length, the average is the total divided
\* by the count, and the highest is the maximum amount.
C10_StatsAreArithmetic ==
    (Rendered /\ expenses # <<>>) =>
        /\ derived.totalAmount = ExactSum(AmountsOf(expenses))
        /\ derived.count = Len(expenses)
        /\ derived.avg.m * derived.count = derived.totalAmount * Pow2(derived.avg.e)
        /\ HighestIsMaximum
        /\ ScenarioStats

\* C10, amended: the count is the length and the highest is the maximum
\* amount; the total is the arithmetic sum whenever no addition rounds; the
\* average is the total divided by the count rounded to the nearest
\* representable number (so exactly the quotient when that is
\* representable); the scenario's figures are as stated.
C10_StatsUpToRounding ==
    (Rendered /\ expenses # <<>>) =>
        /\ derived.count = Len(expenses)
        /\ HighestIsMaximum
        /\ NoRounding(expenses) => derived.totalAmount = ExactSum(AmountsOf(expenses))
        /\ 2 * Abs(derived.avg.m * derived.count - derived.totalAmount * Pow2(derived.avg.e))
              <= derived.count * Ulp(derived.avg.m)
        /\ (derived.totalAmount % derived.count = 0 /\ NoRounding(expenses))
              => derived.avg.m * derived.count = derived.totalAmount * Pow2(derived.avg.e)
        /\ ScenarioStats

\* C10's case: the scenario's three expenses are on screen
C10_Witness ==
    /\ Rendered
    /\ expenses = Scenario
    /\ derived.totalAmount = 2000 /\ derived.count = 3 /\ derived.highest = 1200

Zero == [m |-> 0, e |-> 0]

\* C11: for an empty list of expenses the statistics are highest = 0,
\* average = 0 (a number, not the NaN of 0 / 0), count = 0 and total = 0, and
\* the category totals and the monthly totals are empty.
C11_EmptyIsZero ==
    (Rendered /\ expenses = <<>>) =>
        /\ derived.highest = 0
        /\ derived.avg = Zero
        /\ derived.count = 0
        /\ derived.totalAmount = 0
        /\ derived.categoryData = <<>>
        /\ derived.totalByCategories = 0
        /\ derived.monthlyData = <<>>

\* C11's case: the Dashboard has rendered an empty list
C11_Witness == Rendered /\ expenses = <<>> /\ derived.count = 0

\* the month of a row is before the month of another
MonthBefore(a, b) ==
    \/ a.created_at.y < b.created_at.y
    \/ a.created_at.y = b.created_at.y /\ a.created_at.mo < b.created_at.mo

\* the position of the entry of a row's month in the monthly totals
EntryOf(e) ==
    {j \in 1..Len(derived.monthlyData) :
        /\ derived.monthlyData[j].month.year = e.created_at.y
        /\ derived.monthlyData[j].month.monthIndex + 1 = e.created_at.mo}

\* C12: the keys of the monthly totals are YYYY-MM with the month padded to
\* two digits and come in ascending lexicographic order; every expense's
\* month has exactly one entry, and of two expenses in different months the
\* entry of the earlier month comes first.
C12_MonthlyChronological ==
    Rendered =>
        /\ \A k \in 1..Len(derived.monthKeys) :
              /\ Len(derived.monthKeys[k]) = 7
              /\ derived.monthKeys[k][5] = "-"
        /\ \A i, j \in 1..Len(derived.monthKeys) :
              i < j => StrLess(derived.monthKeys[i], derived.monthKeys[j])
        /\ Len(derived.monthlyData) = Len(derived.monthKeys)
        /\ \A k \in 1..Len(expenses) : Cardinality(EntryOf(expenses[k])) = 1
        /\ \A a, b \in 1..Len(expenses) :
              MonthBefore(expenses[a], expenses[b])
                 => \A i \in EntryOf(expenses[a]), j \in EntryOf(expenses[b]) : i < j

\* C12's case: expenses of October, February and September of one year,
\* listed in that order, are on screen under three monthly totals
C12_Witness ==
    /\ Rendered
    /\ Len(expenses) = 3
    /\ expenses[1].created_at.mo = 10 /\ expenses[2].created_at.mo = 2
    /\ expenses[3].created_at.mo = 9
    /\ \A k \in 1..3 : expenses[k].created_at.y = 2024
    /\ Len(derived.monthlyData) = 3
    /\ derived.monthlyData[3].month.monthIndex = 9

-----------------------------------------------------------------------------
(* Claims about the CSV export *)

\* Reading CSV text by the standard quoting rules (RFC 4180): a field that
\* starts with a quote runs to the next quote that is not doubled, and a
\* doubled quote inside it stands for one quote.  mode is "start" (at the
\* start of a field), "plain", "quoted" or "quote" (after a quote inside a
\* quoted field).
RECURSIVE ParseCSVFrom(_, _, _, _, _)
ParseCSVFrom(text, mode, field, record, records) ==
    IF text = <<>>
    THEN IF mode = "start" /\ record = <<>> THEN records
         ELSE Append(records, Append(record, field))
    ELSE LET c    == Head(text)
             rest == Tail(text)
         IN  IF mode = "quoted"
             THEN IF c = "\"" THEN ParseCSVFrom(rest, "quote", field, record, records)
                  ELSE ParseCSVFrom(rest, "quoted", Append(field, c), record, records)
             ELSE IF mode = "quote" /\ c = "\""
             THEN ParseCSVFrom(rest, "quoted", Append(field, c), record, records)
             ELSE IF c = ","
             THEN ParseCSVFrom(rest, "start", <<>>, Append(record, field), records)
             ELSE IF c = "\n"
             THEN ParseCSVFrom(rest, "start", <<>>, <<>>, Append(records, Append(record, field)))
             ELSE IF mode = "start" /\ c = "\""
             THEN ParseCSVFrom(rest, "quoted", <<>>, record, records)
             ELSE ParseCSVFrom(rest, "plain", Append(field, c), record, records)

ParseCSV(text) == ParseCSVFrom(text, "start", <<>>, <<>>, <<>>)

\* C13: in the exported file the description of every expense is a quoted
\* field with its quotes doubled, and reading the file by the standard
\* quoting rules gives back, after the header, one record per expense whose
\* first field is the expense's description.
C13_CsvRoundTrip ==
    csv.exported =>
        LET records == ParseCSV(csv.text)
        IN  /\ Len(records) = Len(expenses) + 1
            /\ \A k \in 1..Len(expenses) :
                  /\ Len(records[k + 1]) >= 1
                  /\ records[k + 1][1] = expenses[k].description

-----------------------------------------------------------------------------
(* Claims about the Dashboard's list *)

IsFetch(op) == op.kind = "fetchExpenses"

\* step i of the table answering fetch i with rows
Answers(i) ==
    /\ i \in 1..Len(ops) /\ Len(ops') = Len(ops)
    /\ IsFetch(ops[i]) /\ ops[i].pc = "query"
    /\ ops'[i].pc = "responded" /\ ops'[i].error = ""

RangeSet(d) == d.startDate # NoDate \/ d.endDate # NoDate

\* C14: a fetch made with a start date or an end date set is answered with
\* the same rows whatever the named filter is: the answer is the one the
\* same fetch would get under each of today, week, month and all.
C14_RangeOverridesFilter ==
    [][\A i \in 1..Len(ops) :
          (Answers(i) /\ RangeSet(ops[i].params))
             => \A f \in Filters :
                   ops'[i].data =
                      OrderDesc(Selected(expenseRows,
                          [email |-> ops[i].params.email]
                             @@ DateBounds([ops[i].params EXCEPT !.filter = f], ops[i].clock)))
      ]_vars

\* C14's case: under the filter today and an explicit range, rows of other
\* days have been fetched and are listed
C14_Witness ==
    /\ dash.filter = "today" /\ RangeSet(dash) /\ ~dash.loading
    /\ \E k \in 1..Len(expenses) : expenses[k].created_at.d # now.d

\* the owner's rows from the first millisecond of the start date, if one
\* is set, through the last millisecond of the end date, if one is set
InRange(rows, d) ==
    {r \in rows :
        /\ r.email = d.email
        /\ d.startDate # NoDate
              => InstLeq(Instant(d.startDate.y, d.startDate.mo, d.startDate.d, 0), r.created_at)
        /\ d.endDate # NoDate
              => InstLeq(r.created_at, Instant(d.endDate.y, d.endDate.mo, d.endDate.d, 86399999))}

\* C15: the rows a fetch with an explicit range is answered with are
\* exactly the owner's rows from 00:00:00.000 of the start date through
\* 23:59:59.999 of the end date, a date that is not set giving no bound.
C15_ExplicitRangeWindow ==
    [][\A i \in 1..Len(ops) :
          (Answers(i) /\ RangeSet(ops[i].params))
             => Range(ops'[i].data) = InRange(expenseRows, ops[i].params)
      ]_vars

\* C15's case: a range of one day was answered with the rows of its first
\* and its last millisecond, and rows outside it exist
C15_Witness ==
    \E i \in 1..Len(ops) :
        /\ IsFetch(ops[i]) /\ ops[i].pc = "responded"
        /\ ops[i].params.startDate = ops[i].params.endDate
        /\ ops[i].params.startDate # NoDate
        /\ \E r, t \in Range(ops[i].data) : r.created_at.ms = 0 /\ t.created_at.ms = 86399999
        /\ \E r \in expenseRows : r.email = ops[i].params.email /\ r \notin Range(ops[i].data)

\* C16: with no range set, today is answered only with rows of the current
\* local date, week only with rows from seven days before now through now,
\* month only with rows from the first of the current month through now,
\* and all with every row of the owner.
C16_NamedWindows ==
    [][\A i \in 1..Len(ops) :
          (Answers(i) /\ ~RangeSet(ops[i].params))
             => LET d   == ops[i].params
                    clk == ops[i].clock
                IN  \A r \in Range(ops'[i].data) :
                       /\ r.email = d.email
                       /\ d.filter = "today"
                            => r.created_at.y = clk.y /\ r.created_at.mo = clk.mo
                               /\ r.created_at.d = clk.d
                       /\ d.filter = "week"
                            => /\ InstLeq(setDate(clk, clk.d - 7), r.created_at)
                               /\ InstLeq(r.created_at, clk)
                       /\ d.filter = "month"
                            => /\ InstLeq(Instant(clk.y, clk.mo, 1, 0), r.created_at)
                               /\ InstLeq(r.created_at, clk)
      ]_vars

\* step i of fetchExpenses taking up the rows it was answered with
TakesUp(i) ==
    /\ i \in 1..Len(ops)
    /\ IsFetch(ops[i]) /\ ops[i].pc = "responded" /\ ops[i].error = ""
    /\ ops' = Remove(ops, i)

\* the rows of a list, in order, that satisfy keep
Kept(rows, keep(_)) == SelectSeq(rows, keep)

\* C17 as stated: the list is the answered rows whose lower-cased
\* description, lower-cased category, stringified amount or formatted date
\* contains the trimmed, lower-cased term.
C17_SearchOnFormattedDate ==
    [][\A i \in 1..Len(ops) :
          TakesUp(i) =>
             LET term == toLowerCase(trim(ops[i].searchTerm))
             IN  expenses' =
                    Kept(ops[i].data, LAMBDA e :
                        \/ term = <<>>
                        \/ includes(toLowerCase(e.description), term)
                        \/ includes(toLowerCase(CategoryText(e.category)), term)
                        \/ includes(StrInt(e.amount), term)
                        \/ includes(toLocaleString(e.created_at), term))
      ]_vars

\* C17, amended: the list is the date-filtered rows, in their order, whose
\* lower-cased description, lower-cased category, stringified amount or
\* lower-cased formatted date contains the trimmed, lower-cased term; an
\* empty or blank term keeps every row.
C17_SearchAfterDateFilter ==
    [][\A i \in 1..Len(ops) :
          TakesUp(i) =>
             LET term == toLowerCase(trim(ops[i].searchTerm))
             IN  /\ expenses' =
                       Kept(ops[i].data, LAMBDA e :
                           \/ term = <<>>
                           \/ includes(toLowerCase(e.description), term)
                           \/ includes(toLowerCase(CategoryText(e.category)), term)
                           \/ includes(StrInt(e.amount), term)
                           \/ includes(toLowerCase(toLocaleString(e.created_at)), term))
                 /\ trim(ops[i].searchTerm) = <<>> => expenses' = ops[i].data
      ]_vars

\* C17's case: the term " F " is set and the list holds the one row of the
\* owner whose description or category contains f
C17_Witness ==
    /\ dash.searchTerm = <<" ", "F", " ">> /\ ~dash.loading /\ dash.email = <<"a">>
    /\ ops = <<>>
    /\ Len(expenses) = 1
    /\ expenses[1].description = <<"F", "a">>
    /\ expenseRows = RowUniverse

-----------------------------------------------------------------------------
(* Claims about the budget *)

\* C18: when the update of a budget save for owner e with value v returns
\* without an error, the table holds exactly one row of e and its budget
\* is v, also when no row of e existed before.
C18_SavedBudgetIsStored ==
    [][\A i \in 1..Len(ops) :
          (/\ Len(ops') = Len(ops)
           /\ ops[i].kind = "saveBudget" /\ ops[i].pc = "update"
           /\ ops'[i].pc = "responded" /\ ops'[i].error = "")
          => /\ Cardinality({k \in 1..Len(profiles') : profiles'[k].email = ops[i].email}) = 1
             /\ \A k \in 1..Len(profiles') :
                   profiles'[k].email = ops[i].email => profiles'[k].budget = Value(ops[i].value)
      ]_vars

-----------------------------------------------------------------------------
(* Claims about the auth store *)

\* C19: a sign-out leaves the store without a user, and while nobody is
\* signed in the protected pages /dashboard and /todos are not shown.
C19_SignOutClearsStore ==
    [][/\ (session.active /\ ~session'.active) => storeUser' = NULL
       /\ ~session'.active => route' \notin Protected
      ]_vars

-----------------------------------------------------------------------------
(* Claims about clear-all *)

ClearOps(kind, o) == {i \in 1..Len(o) : o[i].kind = kind}

\* a step on one table and its page: rows are removed only by a clear
\* request in flight, which removes exactly the rows of its email; a request
\* is sent only from the open dialog and for the email the dialog was opened
\* with; the dialog opens only with an email, which it keeps
ScopedStep(kind, rows, rowsNext, page, pageNext, email) ==
    /\ rowsNext # rows =>
          \E i \in ClearOps(kind, ops) :
             /\ ops[i].pc = "delete" /\ ops[i].email # NULL
             /\ rowsNext = {r \in rows : r.email # ops[i].email}
    /\ Cardinality(ClearOps(kind, ops')) > Cardinality(ClearOps(kind, ops)) =>
          /\ page.confirm.open /\ ~pageNext.confirm.open
          /\ ops' = Append(ops, ops'[Len(ops')])
          /\ ops'[Len(ops')].kind = kind /\ ops'[Len(ops')].pc = "delete"
          /\ ops'[Len(ops')].email = page.confirm.email
    /\ (~page.confirm.open /\ pageNext.confirm.open) =>
          email # NULL /\ pageNext.confirm.email = email
    /\ (page.confirm.open /\ pageNext.confirm.open) =>
          pageNext.confirm.email = page.confirm.email

\* C20: clear-all deletes all and only the rows of the email the user had
\* when pressing it, once the dialog is confirmed; nothing is sent or
\* deleted without an email or when the dialog is cancelled.
C20_ClearAllScoped ==
    [][/\ ScopedStep("clearExpenses", expenseRows, expenseRows', dash, dash', dash.email)
       /\ ScopedStep("clearTodos", todoRows, todoRows', todo, todo', todo.userEmail)
      ]_vars

\* a confirmed clear of owner a's expenses was answered: a's two rows are
\* gone, b's row is still there
C20_Witness ==
    /\ \E i \in ClearOps("clearExpenses", ops) :
          ops[i].pc = "responded" /\ ops[i].error = "" /\ ops[i].email = <<"a">>
    /\ expenseRows = {r \in ClearExpenseRows : r.email = <<"b">>}

\* the same for owner b's tasks on the TodoList
C20_TodoCleared ==
    /\ \E i \in ClearOps("clearTodos", ops) :
          ops[i].pc = "responded" /\ ops[i].error = "" /\ ops[i].email = <<"b">>
    /\ todoRows = {r \in ClearTodoRows : r.email = <<"a">>}

-----------------------------------------------------------------------------
(* Claims about the answer of delete-user *)

\* request i of delete-user is answered in this step
AnsweredNow(i) ==
    /\ Len(ops') = Len(ops)
    /\ ops[i].path = "delete-user"
    /\ ops[i].pc # "responded" /\ ops'[i].pc = "responded"

IdentityAbsent(id) == \A a \in authUsers' : a.id # id

ProfileAbsent(id) == \A p \in Range(profiles') : p.id # id

\* C30: delete-user answers success = true only when, as it answers, neither
\* an identity nor a profile row of the requested id exists; when it answers
\* success = false because the profile deletion failed, the identity is
\* already deleted and the profile table is as it was (the row remains).
C30_DeleteAnswerMatchesState ==
    [][\A i \in 1..Len(ops) :
          AnsweredNow(i) =>
             /\ ops'[i].res.success =>
                   IdentityAbsent(ops[i].body.id) /\ ProfileAbsent(ops[i].body.id)
             /\ (ops'[i].tableTried /\ ~ops'[i].tableOk) =>
                   /\ ~ops'[i].res.success
                   /\ IdentityAbsent(ops[i].body.id)
                   /\ profiles' = profiles
      ]_vars

\* the profile deletion failed for a user who had both records: answered
\* success = false, the identity gone, the profile row still there
C30_Witness ==
    \E i \in 1..Len(ops) :
        /\ ops[i].path = "delete-user" /\ ops[i].pc = "responded"
        /\ ops[i].tableTried /\ ~ops[i].tableOk /\ ~ops[i].res.success
        /\ \A a \in authUsers : a.id # ops[i].body.id
        /\ \E p \in Range(profiles) : p.id = ops[i].body.id

-----------------------------------------------------------------------------
(* Claims about the Admin screen's state while requests are in flight *)

\* C28: while isLoggedIn is false the users list is empty, also after a
\* list-users fetch that was in flight at the logout has answered.
C28_LoggedOutShowsNoUsers == ~isLoggedIn => users = <<>>

\* a request of the Admin screen that left the browser and has not been
\* taken up by its handler yet
AdminInFlight ==
    {i \in 1..Len(ops) : ops[i].kind \in {"fetchUsers", "handleDelete"} /\ ops[i].pc # "confirm"}

\* C29: loading is true while a list-users fetch or a delete-user request
\* of the Admin screen is in flight, and false when none is.
C29_LoadingCoversRequests == loading <=> AdminInFlight # {}

-----------------------------------------------------------------------------
(* Claims about overlapping fetches *)

\* what the query for the selection d returns from the table, searched
ResultFor(d) ==
    ApplySearch(OrderDesc(Selected(expenseRows, [email |-> d.email] @@ DateBounds(d, now))),
                d.searchTerm)

\* fetch i, answered without an error, is the last fetch to complete
LastFetchCompletes(i) ==
    /\ IsFetch(ops[i]) /\ ops[i].pc = "responded" /\ ops[i].error = ""
    /\ ops' = Remove(ops, i)
    /\ \A j \in 1..Len(ops') : ~IsFetch(ops'[j])

\* C26: when the last expense fetch in flight completes, the list shown is
\* the result of the query for the selection made last: the answer of a
\* fetch started for an earlier selection does not replace it.
C26_ListMatchesSelection ==
    [][\A i \in 1..Len(ops) :
          (LastFetchCompletes(i) /\ dash'.email # NULL) => expenses' = ResultFor(dash')
      ]_vars

-----------------------------------------------------------------------------
(* C21: a rejected submission sends nothing *)

\* the expense form as the claim describes a rejected one
FormRejected == dash.description = <<>> \/ ~dash.amount.set \/ dash.email = NULL

\* the new task as the claim describes a rejected one
TaskRejected == trim(todo.newTask) = <<>>

\* the requests of addTodo in flight
Adds(o) == {i \in TodoOps(o) : o[i].what = "add"}

\* C21: while the expense form has an empty description, an empty amount
\* or no user email, no step sends a request of the form or turns formLoading
\* on, and a step that sends and consumes no request leaves the displayed
\* and the stored expenses alone; while the trimmed new task is empty, no
\* step sends an add request or turns adding on, and a step that sends and
\* consumes no request leaves the displayed and the stored todos alone.
C21_RejectedSendsNothing ==
    [][/\ FormRejected =>
             /\ Cardinality(Saves(ops')) <= Cardinality(Saves(ops))
             /\ ~dash.formLoading => ~dash'.formLoading
             /\ ops' = ops => expenses' = expenses /\ expenseRows' = expenseRows
       /\ TaskRejected =>
             /\ Cardinality(Adds(ops')) <= Cardinality(Adds(ops))
             /\ ~todo.adding => ~todo'.adding
             /\ ops' = ops => todo'.todos = todo.todos /\ todoRows' = todoRows]_vars

\* a user is known and an amount is typed, the description is empty, and
\* the Add button is enabled with nothing in flight
C21_Witness ==
    /\ OnDashboard /\ dash.email # NULL
    /\ dash.description = <<>> /\ dash.amount.set /\ dash.amount.v # 0
    /\ ~dash.formLoading /\ ops = <<>> /\ ENABLED HandleAddOrSave

\* a new task of blanks only, with a user and nothing in flight
C21_BlankTask ==
    /\ OnTodos /\ todo.userEmail # NULL
    /\ todo.newTask # <<>> /\ TaskRejected
    /\ ~todo.adding /\ ops = <<>> /\ ENABLED AddTodo

-----------------------------------------------------------------------------
(* C27: the expense being edited *)

\* C27: whenever editingId is set, the table holds an expense with that id.
C27_EditingIdExists ==
    dash.editingId # NoRow => \E r \in expenseRows : r.id = dash.editingId

\* the save of an edit that ends with "Expense updated" has updated a row
C27_UpdatedMeansRowChanged ==
    [][\A i \in 1..Len(ops) :
          /\ ops[i].kind = "saveExpense" /\ ops[i].mode = "update"
          /\ ops[i].pc = "refetch" /\ ops' = Remove(ops, i)
          /\ dash'.notice = "Expense updated"
          => ops[i].matched >= 1]_vars

-----------------------------------------------------------------------------
(* C23: the lists come from the backend *)

\* the step applies the answer of a fetch of the given kind
FetchApplied(kind) ==
    \E i \in 1..Len(ops) :
       ops[i].kind = kind /\ ops[i].pc = "responded" /\ ops' = Remove(ops, i)

\* C23: the displayed expenses and the displayed todos change only in a
\* step that applies the answer of a fetch of that list.
C23_ListsOnlyFromFetch ==
    [][/\ expenses' # expenses => FetchApplied("fetchExpenses")
       /\ todo'.todos # todo.todos => FetchApplied("fetchTodos")]_vars

\* the Dashboard's half of C23
C23_ExpensesOnlyFromFetch ==
    [][expenses' # expenses => FetchApplied("fetchExpenses")]_vars

-----------------------------------------------------------------------------
(* C22 and C24: a request that failed *)

\* the answer of op reports a failure
Failed(op) ==
    /\ op.pc = "responded"
    /\ IF "res" \in DOMAIN op THEN ~op.res.success ELSE op.error # ""

\* how often x is in flight in o
Count(o, x) == Cardinality({j \in 1..Len(o) : o[j] = x})

\* the step consumes the failed answer of ops[i]
FailureHandled(i) == Failed(ops[i]) /\ Count(ops', ops[i]) < Count(ops, ops[i])

MutationKinds == {"saveExpense", "deleteExpense", "clearExpenses", "todoOp", "clearTodos"}

\* the loading flag of the handler of op is off after the step
FlagOff(op) ==
    CASE op.kind = "saveExpense" -> op.via = "button" => ~dash'.formLoading
      [] op.kind = "deleteExpense" -> dash'.deletingId = NoRow
      [] op.kind = "clearExpenses" -> ~dash'.clearLoading
      [] op.kind = "clearTodos" -> ~todo'.loading
      [] op.kind = "todoOp" ->
            IF op.what = "add" THEN ~todo'.adding ELSE todo'.opLoadingId = NoRow

\* C22: the step that handles the error of an expense insert, update,
\* delete or clear, or of a todo add, toggle, edit, delete or clear, leaves
\* the displayed lists, the fields of the forms and the editing ids as they
\* were, and the handler's loading flag is off after it.
C22_ErrorLeavesStateAlone ==
    [][\A i \in 1..Len(ops) :
          ops[i].kind \in MutationKinds /\ FailureHandled(i) =>
             /\ expenses' = expenses /\ todo'.todos = todo.todos
             /\ dash'.description = dash.description /\ dash'.amount = dash.amount
             /\ dash'.category = dash.category /\ dash'.editingId = dash.editingId
             /\ todo'.newTask = todo.newTask /\ todo'.editingId = todo.editingId
             /\ todo'.editingText = todo.editingText
             /\ FlagOff(ops[i])]_vars

\* a filled form whose request has failed and was handled: the form is
\* still filled, the alert shows the error and formLoading is off
C22_Witness ==
    /\ OnDashboard /\ dash.notice \in TableErrors /\ ops = <<>>
    /\ dash.description # <<>> /\ dash.amount.set /\ ~dash.formLoading
    /\ ~dash.clearLoading

\* an edit of a task whose request failed: the edit is still open
C22_FailedEdit ==
    /\ OnTodos /\ todo.notice = "Could not save changes." /\ ops = <<>>
    /\ todo.editingId # NoRow /\ todo.editingText # <<>> /\ todo.opLoadingId = NoRow

\* the failure of op is shown by the step: the alert of the handler; the
\* form's submit and toggleDone write to the console only
Surfaced(op) ==
    CASE op.kind = "saveExpense" -> op.via = "button" => dash'.notice = op.error
      [] op.kind = "deleteExpense" -> dash'.notice = "Failed to delete expense. Try again."
      [] op.kind = "clearExpenses" -> dash'.notice = op.error
      [] op.kind = "clearTodos" -> todo'.notice = "Could not clear tasks."
      [] op.kind = "todoOp" ->
            CASE op.what = "add" -> todo'.notice = "Could not add todo."
              [] op.what = "edit" -> todo'.notice = "Could not save changes."
              [] op.what = "delete" -> todo'.notice = "Could not delete task."
              [] OTHER -> TRUE
      [] op.kind \in {"fetchUsers", "handleDelete"} -> alert'.title = "Error"
      [] OTHER -> TRUE

-----------------------------------------------------------------------------
(* C25: two submissions of the expense form *)

\* the requests of the Add / Save button in flight
ButtonSaves(o) == {i \in Saves(o) : o[i].via = "button"}

C25_TwoInFlight ==
    \E i, j \in Saves(ops) :
       /\ i < j /\ ops[i].via = "submit" /\ ops[j].via = "submit"
       /\ ops[i].mode = "insert" /\ ops[j].mode = "insert"
       /\ ops[i].pc = "mutate" /\ ops[j].pc = "mutate"

====
